---- MODULE Spec2Model ----
(***************************************************************************)
(* Model of the fuzzy-resolution core of mcp-gitlab-jira: the exhaustive   *)
(* pagination loop of the Agile API calls, the edit-distance matchers and  *)
(* the sprint resolution of a ticket (src/src/jira.service.ts), and the    *)
(* jira_transition_ticket tool handler (src/unnamed/part_005).             *)
(*                                                                         *)
(* The subsystems are independent; each has its own specification over the *)
(* shared variables, the variables of the other subsystems staying idle.   *)
(***************************************************************************)
EXTENDS Integers, Sequences, FiniteSets, TLC

VARIABLES
    sys,            \* which subsystem this behaviour exercises
    \* ---- pagination loop (getAllBoards / getSprintsForBoard)
    pg_kind,        \* "boards" | "sprints": which of the two functions runs
    pg_pc,          \* "idle" | "loop" | "done" | "failed"
    pg_startAt,     \* let startAt
    pg_all,         \* let allBoards / allSprints
    pg_totalCount,  \* let totalCount
    pg_isLastPage,  \* let isLastPage
    pg_requests,    \* history: the requests issued, in order (at most MaxRequests)
    pg_responses,   \* history: the page envelopes received for them, in order
    pg_watch,       \* history: what is remembered of the whole run (see Watch)
    pg_result,      \* the returned {values, total, isLast}
    \* ---- matcher call sites
    m_site,         \* "option" | "sprint" | "field" | "transition"
    m_pc,           \* "idle" | "ready" | "done"
    m_input,        \* the text the caller supplied
    m_cands,        \* the candidate list the upstream holds
    m_result,       \* the outcome of the call
    m_sent,         \* history: the write requests sent upstream
    \* ---- updateTicketSprint and the sprint resolution it runs
    sr_pc,          \* "idle" | "sprintField" | "projectKey" | "boards" | "help" |
                    \* "sprints" | "board" | "boardHelp" | "boardSprints" |
                    \* "done" (the sprints are resolved) | "finished"
    sr_sprintName,  \* argument sprintName
    sr_boardId,     \* argument boardId (optional)
    sr_fieldId,     \* const sprintFieldId
    sr_ticket,      \* upstream: the project key of the ticket (optional)
    sr_server,      \* upstream: the boards, each with the sprints it lists
    sr_projectKey,  \* const projectKey
    sr_boards,      \* const prioritizedBoards
    sr_i,           \* the position of the for loop in prioritizedBoards
    sr_allSprints,  \* const allSprints
    sr_boardErrors, \* const boardErrors
    sr_requests,    \* history: the requests issued, in order
    sr_result,      \* the list of available sprints or the failure thrown
    sr_sent,        \* history: the write requests sent upstream
    sr_update,      \* the outcome of updateTicketSprint past the resolution
    \* ---- searchTickets
    q_pc,           \* "idle" | "ready" | "done"
    q_criteria,     \* argument criteria
    q_conditions,   \* const conditions
    q_request,      \* history: the search requests sent upstream
    q_outcome,      \* "none" | "ok" | "UpstreamRequestFailed"
    \* ---- parseDiff
    d_pc,           \* "idle" | "loop" | "done"
    d_diff,         \* argument diff
    d_pos,          \* the position of the for loop in lines
    d_currentHunk,  \* let currentHunk (optional)
    d_hunks,        \* const hunks; at "done", the value returned
    \* ---- levenshteinDistance
    lv_pc,          \* "idle" | "ready" | "done"
    lv_a,           \* argument a
    lv_b,           \* argument b
    lv_distance,    \* the value returned
    \* ---- the pagination loop against a server that serves a fixed list
    sv_server,      \* upstream: the list held and the server's page cap
    \* ---- findBoards
    fb_pc,          \* "call" before the call, "done" after it
    fb_criteria,    \* the argument of findBoards
    fb_server,      \* upstream: the boards held, whether list filters work
    fb_requests,    \* the agile requests issued, in order
    fb_outcome,     \* what findBoards returned or threw
    \* ---- the field-catalog cache of one JiraService instance
    fc_allFieldsCache,      \* this.allFieldsCache
    fc_storyPointsFieldId,  \* this.storyPointsFieldId
    fc_upstream,            \* the catalog the upstream answers with now
    fc_calls,               \* the tool calls on the instance, by slot
    fc_requests,            \* the upstream field requests issued, by slot
    fc_fetched,             \* the catalogs the successful requests returned
    fc_started,             \* how many calls have begun
    \* ---- the project cache of one GitLabService instance
    gl_projectCache,    \* this.projectCache
    gl_now,             \* Date.now(), in milliseconds since construction
    gl_upstream,        \* the projects the upstream answers with now
    gl_pc,              \* "idle", or "awaiting" the upstream
    gl_last,            \* how the last call of listProjects ended
    gl_requests,        \* how many upstream project requests were issued
    gl_calls,           \* how many calls have begun
    gl_ticks            \* how many times the clock has advanced

pgVars == <<pg_kind, pg_pc, pg_startAt, pg_all, pg_totalCount, pg_isLastPage,
            pg_requests, pg_responses, pg_watch, pg_result>>

mVars == <<m_site, m_pc, m_input, m_cands, m_result, m_sent>>

\* The arguments and the locals of updateTicketSprint itself.
suVars == <<sr_sprintName, sr_boardId, sr_fieldId, sr_sent, sr_update>>

srVars == <<sr_pc, sr_ticket, sr_server, sr_projectKey, sr_boards, sr_i,
            sr_allSprints, sr_boardErrors, sr_requests, sr_result, suVars>>

qVars == <<q_pc, q_criteria, q_conditions, q_request, q_outcome>>

dVars == <<d_pc, d_diff, d_pos, d_currentHunk, d_hunks>>

lvVars == <<lv_pc, lv_a, lv_b, lv_distance>>

fbVars == <<fb_pc, fb_criteria, fb_server, fb_requests, fb_outcome>>

fcVars == <<fc_allFieldsCache, fc_storyPointsFieldId, fc_upstream, fc_calls,
            fc_requests, fc_fetched, fc_started>>

glVars == <<gl_projectCache, gl_now, gl_upstream, gl_pc, gl_last,
            gl_requests, gl_calls, gl_ticks>>

vars == <<sys, pgVars, mVars, srVars, qVars, dVars, lvVars, sv_server, fbVars,
          fcVars, glVars>>

\* The values a subsystem's variables keep while another subsystem runs.
PageIdle ==
    /\ pg_kind = "none"
    /\ pg_pc = "idle"
    /\ pg_startAt = 0
    /\ pg_all = <<>>
    /\ pg_totalCount = 0
    /\ pg_isLastPage = FALSE
    /\ pg_requests = <<>>
    /\ pg_responses = <<>>
    /\ pg_watch = <<>>
    /\ pg_result = <<>>

MatchIdle ==
    /\ m_site = "none"
    /\ m_pc = "idle"
    /\ m_input = <<>>
    /\ m_cands = <<>>
    /\ m_result = <<>>
    /\ m_sent = <<>>

SprintIdle ==
    /\ sr_pc = "idle"
    /\ sr_ticket = <<>>
    /\ sr_server = <<>>
    /\ sr_projectKey = <<>>
    /\ sr_boards = <<>>
    /\ sr_i = 0
    /\ sr_allSprints = <<>>
    /\ sr_boardErrors = <<>>
    /\ sr_requests = <<>>
    /\ sr_result = <<>>
    /\ sr_sprintName = <<>>
    /\ sr_boardId = <<>>
    /\ sr_fieldId = ""
    /\ sr_sent = <<>>
    /\ sr_update = <<>>

SearchIdle ==
    /\ q_pc = "idle"
    /\ q_criteria = <<>>
    /\ q_conditions = <<>>
    /\ q_request = <<>>
    /\ q_outcome = "none"

ServedIdle == sv_server = <<>>

ProjectCacheIdle ==
    /\ gl_projectCache = <<>>
    /\ gl_now = 0
    /\ gl_upstream = <<>>
    /\ gl_pc = "idle"
    /\ gl_last = <<>>
    /\ gl_requests = 0
    /\ gl_calls = 0
    /\ gl_ticks = 0

FieldCacheIdle ==
    /\ fc_allFieldsCache = <<>>
    /\ fc_storyPointsFieldId = ""
    /\ fc_upstream = <<>>
    /\ fc_calls = <<>>
    /\ fc_requests = <<>>
    /\ fc_fetched = <<>>
    /\ fc_started = 0

FindIdle ==
    /\ fb_pc = "idle"
    /\ fb_criteria = <<>>
    /\ fb_server = <<>>
    /\ fb_requests = <<>>
    /\ fb_outcome = <<>>

DistanceIdle ==
    /\ lv_pc = "idle"
    /\ lv_a = <<>>
    /\ lv_b = <<>>
    /\ lv_distance = 0

DiffIdle ==
    /\ d_pc = "idle"
    /\ d_diff = <<>>
    /\ d_pos = 0
    /\ d_currentHunk = <<>>
    /\ d_hunks = <<>>

-----------------------------------------------------------------------------
(* Generic helpers                                                         *)

\* An optional JavaScript value: <<>> is undefined, <<x>> is the value x.
None == <<>>

Some(x) == <<x>>

IsDefined(o) == o # <<>>

\* All sequences over S of length 0..n.
SeqsUpTo(S, n) == UNION {[1..k -> S] : k \in 0..n}

Max(a, b) == IF a >= b THEN a ELSE b

Min(a, b) == IF a <= b THEN a ELSE b

RECURSIVE Flatten(_)
\* The concatenation of a sequence of sequences, in order.
Flatten(ss) == IF ss = <<>> THEN <<>> ELSE Head(ss) \o Flatten(Tail(ss))

-----------------------------------------------------------------------------
(* Strings: a string is a sequence of one-character strings                *)

\* String.prototype.toLowerCase on the letters the model uses.
LowerOf ==
    ("A" :> "a") @@ ("B" :> "b") @@ ("C" :> "c") @@ ("H" :> "h") @@
    ("L" :> "l") @@ ("M" :> "m") @@ ("P" :> "p") @@ ("S" :> "s") @@
    ("X" :> "x") @@ ("U" :> "u") @@ ("R" :> "r") @@ ("G" :> "g") @@
    ("E" :> "e") @@ ("N" :> "n") @@ ("T" :> "t") @@ ("O" :> "o")

toLowerCase(s) ==
    [i \in 1..Len(s) |-> IF s[i] \in DOMAIN LowerOf THEN LowerOf[s[i]] ELSE s[i]]

\* The characters the regular expression class \s and trim() treat as blank.
IsSpace(c) == c = " "

RECURSIVE trimStart(_)
trimStart(s) ==
    IF s # <<>> /\ IsSpace(Head(s)) THEN trimStart(Tail(s)) ELSE s

RECURSIVE trimEnd(_)
trimEnd(s) ==
    IF s # <<>> /\ IsSpace(s[Len(s)]) THEN trimEnd(SubSeq(s, 1, Len(s) - 1)) ELSE s

\* String.prototype.trim
trim(s) == trimEnd(trimStart(s))

Min3(a, b, c) == Min(a, Min(b, c))

RECURSIVE LevRow(_, _, _, _)
\* Row i of the edit-distance table from row i-1 (prev), for character ca of a:
\* acc holds the cells 0..Len(acc)-1 of the row already computed.
LevRow(prev, ca, b, acc) ==
    IF Len(acc) = Len(b) + 1 THEN acc
    ELSE LET j == Len(acc)
         IN  LevRow(prev, ca, b,
                    Append(acc, Min3(prev[j + 1] + 1,
                                     acc[j] + 1,
                                     prev[j] + (IF ca = b[j] THEN 0 ELSE 1))))

RECURSIVE LevRows(_, _, _, _)
LevRows(a, b, prev, i) ==
    IF i > Len(a) THEN prev[Len(b) + 1]
    ELSE LevRows(a, b, LevRow(prev, a[i], b, <<i>>), i + 1)

\* Mutation: only the difference of the lengths is counted.
levenshteinDistance_LengthGap(a, b) == Max(Len(a), Len(b)) - Min(Len(a), Len(b))

\* levenshteinDistance of utils.ts: the unit-cost edit distance, by dynamic
\* programming over the (Len(a)+1) x (Len(b)+1) table, row by row.
levenshteinDistance(a, b) == LevRows(a, b, [j \in 1..(Len(b) + 1) |-> j - 1], 1)

\* Mutation: a candidate at the same distance replaces the best one so far.
Closer_OrEqual(d, best) == IF IsDefined(best) THEN d <= best[1] ELSE TRUE

\* The distance "Infinity" a scan starts from is None; d < best.
Closer(d, best) == IF IsDefined(best) THEN d < best[1] ELSE TRUE

RECURSIVE ScanBest(_, _, _, _)
\* for (const c of candidates) { if (distance < bestDistance) { ... } }:
\* the loop over the distances ds from position i on, best = [index, distance].
ScanBest(ds, i, bestIndex, bestDistance) ==
    IF i > Len(ds) THEN [index |-> bestIndex, distance |-> bestDistance]
    ELSE IF Closer(ds[i], bestDistance)
           THEN ScanBest(ds, i + 1, i, Some(ds[i]))
           ELSE ScanBest(ds, i + 1, bestIndex, bestDistance)

\* let bestMatch = candidates[0]; let bestDistance = Infinity; then the loop.
BestOf(ds) == ScanBest(ds, 1, 1, None)

\* Array.prototype.find, given the value of the predicate for each element in
\* order: the index of the first element satisfying it, or 0.
FindIndex(hits) ==
    IF \E i \in 1..Len(hits) : hits[i]
      THEN CHOOSE i \in 1..Len(hits) : hits[i] /\ \A j \in 1..(i - 1) : ~hits[j]
      ELSE 0

\* Mutation: the threshold grows with the input without the cap of 4.
StrictThreshold_NoCap(n) == Max(n, 2)

\* Math.max(Math.min(normalizedInput.length, 4), 2)
StrictThreshold(n) == Max(Min(n, 4), 2)

\* Math.max(Math.min(normalizedInput.length * 2, 10), 4)
LenientThreshold(n) == Max(Min(n * 2, 10), 4)

RECURSIVE JoinWith(_, _)
\* Array.prototype.join
JoinWith(ss, sep) ==
    IF ss = <<>> THEN <<>>
    ELSE IF Len(ss) = 1 THEN ss[1]
    ELSE ss[1] \o sep \o JoinWith(Tail(ss), sep)

CommaSpace == <<",", " ">>

-----------------------------------------------------------------------------
(* Ordering of boards and sprints                                          *)

\* The collation order of the characters the model uses (blank and punctuation
\* before digits before letters); letters are ranked by their lowercase form.
Collation == <<" ", "_", "-", "1", "2", "3", "a", "b", "c", "d", "e", "g", "h",
               "i", "l", "m", "o", "r", "t", "u", "w", "x", "y", "z">>

CharRank(c) == CHOOSE i \in 1..Len(Collation) : Collation[i] = c

RECURSIVE LexCompare(_, _)
\* Lexicographic comparison of two lowercase strings by character rank.
LexCompare(a, b) ==
    IF a = <<>> /\ b = <<>> THEN 0
    ELSE IF a = <<>> THEN 0 - 1
    ELSE IF b = <<>> THEN 1
    ELSE IF CharRank(Head(a)) < CharRank(Head(b)) THEN 0 - 1
    ELSE IF CharRank(Head(a)) > CharRank(Head(b)) THEN 1
    ELSE LexCompare(Tail(a), Tail(b))

RECURSIVE CaseCompare(_, _)
\* The tie-break between strings equal up to case: lowercase sorts first.
CaseCompare(a, b) ==
    IF a = <<>> \/ b = <<>> THEN 0
    ELSE IF Head(a) = Head(b) THEN CaseCompare(Tail(a), Tail(b))
    ELSE IF Head(a) \in DOMAIN LowerOf THEN 1 ELSE 0 - 1

\* String.prototype.localeCompare: letters first, case as the tie-break.
localeCompare(a, b) ==
    LET primary == LexCompare(toLowerCase(a), toLowerCase(b))
    IN  IF primary # 0 THEN primary ELSE CaseCompare(a, b)

\* const stateOrder = { active: 1, future: 2, closed: 3 }
stateOrder == [active |-> 1, future |-> 2, closed |-> 3]

\* The comparator of uniqueSprints.sort: by state, then by name.
CompareSprints(a, b) ==
    LET stateComparison == stateOrder[a.state] - stateOrder[b.state]
    IN  IF stateComparison # 0 THEN stateComparison
        ELSE localeCompare(a.name, b.name)

\* The comparator of boardsResult.values.sort: scrum boards first, then by name.
CompareBoards(a, b) ==
    IF a.type = "scrum" /\ b.type # "scrum" THEN 0 - 1
    ELSE IF b.type = "scrum" /\ a.type # "scrum" THEN 1
    ELSE localeCompare(a.name, b.name)

Compare(what, a, b) ==
    IF what = "sprints" THEN CompareSprints(a, b) ELSE CompareBoards(a, b)

RECURSIVE InsertSorted(_, _, _)
\* x placed behind every element of the sorted list that does not follow it.
InsertSorted(what, x, sorted) ==
    IF sorted = <<>> THEN <<x>>
    ELSE IF Compare(what, Head(sorted), x) <= 0
           THEN <<Head(sorted)>> \o InsertSorted(what, x, Tail(sorted))
           ELSE <<x>> \o sorted

RECURSIVE SortFrom(_, _, _)
SortFrom(what, xs, sorted) ==
    IF xs = <<>> THEN sorted
    ELSE SortFrom(what, Tail(xs), InsertSorted(what, Head(xs), sorted))

\* Array.prototype.sort with the comparator: a stable sort.
Sort(what, xs) == SortFrom(what, xs, <<>>)

-----------------------------------------------------------------------------
(* The matchers                                                            *)

\* Bound on the length of the generated input texts.
MaxInputLen == 2

\* Bound on the length of the generated candidate lists.
MaxCands == 2

\* The outcome of a call: kind "ok" (index is the position of the candidate
\* chosen) or the kind of the failure, with the text the failure quotes and lists.
Outcome(kind, index, quoted, listed) ==
    [kind |-> kind, index |-> index, quoted |-> quoted, listed |-> listed]

NoOutcome == Outcome("none", 0, <<>>, <<>>)

\* ---- findBestMatchingOption

\* opt.value?.toLowerCase().trim() === normalizedInput || the same for opt.name
OptionIsExact(opt, normalizedInput) ==
    \/ IsDefined(opt.value) /\ trim(toLowerCase(opt.value[1])) = normalizedInput
    \/ IsDefined(opt.name) /\ trim(toLowerCase(opt.name[1])) = normalizedInput

\* opt.value || opt.name || ''
OptionLabel(opt) ==
    IF IsDefined(opt.value) /\ opt.value[1] # <<>> THEN opt.value[1]
    ELSE IF IsDefined(opt.name) /\ opt.name[1] # <<>> THEN opt.name[1]
    ELSE <<>>

\* The distances the fuzzy loop computes, in list order.
OptionDistances(normalizedInput, allowedValues) ==
    [i \in 1..Len(allowedValues) |->
        levenshteinDistance(normalizedInput, toLowerCase(OptionLabel(allowedValues[i])))]

\* allowedValues.map(opt => opt.value || opt.name).join(', ')
AvailableOptions(allowedValues) ==
    JoinWith([i \in 1..Len(allowedValues) |-> OptionLabel(allowedValues[i])], CommaSpace)

\* Mutation: the failure quotes the normalized input instead of the literal one.
NoCloseOption_Normalized(inputValue, allowedValues) ==
    Outcome("NoCloseMatch", 0, trim(toLowerCase(inputValue)),
            AvailableOptions(allowedValues))

\* throw new Error(`No close match found for "${inputValue}". Available options: ...`)
NoCloseOption(inputValue, allowedValues) ==
    Outcome("NoCloseMatch", 0, inputValue, AvailableOptions(allowedValues))

findBestMatchingOption(inputValue, allowedValues) ==
    IF Len(allowedValues) = 0 THEN Outcome("NoAllowedValues", 0, <<>>, <<>>)
    ELSE
      LET normalizedInput == trim(toLowerCase(inputValue))
          exactMatch == FindIndex([i \in 1..Len(allowedValues) |->
                                      OptionIsExact(allowedValues[i], normalizedInput)])
          best == BestOf(OptionDistances(normalizedInput, allowedValues))
      IN  IF exactMatch # 0 THEN Outcome("ok", exactMatch, <<>>, <<>>)
          ELSE IF best.distance[1] > StrictThreshold(Len(normalizedInput))
                 THEN NoCloseOption(inputValue, allowedValues)
                 ELSE Outcome("ok", best.index, <<>>, <<>>)

\* ---- findBestMatchingSprint

\* sprint.name?.toLowerCase().trim() === normalizedInput
SprintIsExact(sprint, normalizedInput) ==
    trim(toLowerCase(sprint.name)) = normalizedInput

\* levenshteinDistance(normalizedInput, (sprint.name || '').toLowerCase())
SprintDistances(normalizedInput, availableSprints) ==
    [i \in 1..Len(availableSprints) |->
        levenshteinDistance(normalizedInput, toLowerCase(availableSprints[i].name))]

\* Mutation: every sprint is listed.
SprintListing_All(availableSprints) ==
    [i \in 1..Len(availableSprints) |->
        [name |-> IF availableSprints[i].name # <<>> THEN availableSprints[i].name
                  ELSE <<"Unnamed Sprint">>,
         state |-> availableSprints[i].state]]

\* `${sprint.name || 'Unnamed Sprint'} (${sprint.state})`, the first 10, joined
SprintListing(availableSprints) ==
    [i \in 1..Min(Len(availableSprints), 10) |->
        [name |-> IF availableSprints[i].name # <<>> THEN availableSprints[i].name
                  ELSE <<"Unnamed Sprint">>,
         state |-> availableSprints[i].state]]

findBestMatchingSprint(inputValue, availableSprints) ==
    IF Len(availableSprints) = 0 THEN Outcome("NoAvailableSprints", 0, <<>>, <<>>)
    ELSE
      LET normalizedInput == trim(toLowerCase(inputValue))
          exactMatch == FindIndex([i \in 1..Len(availableSprints) |->
                                      SprintIsExact(availableSprints[i], normalizedInput)])
          best == BestOf(SprintDistances(normalizedInput, availableSprints))
      IN  IF exactMatch # 0 THEN Outcome("ok", exactMatch, <<>>, <<>>)
          ELSE IF best.distance[1] > LenientThreshold(Len(normalizedInput))
                 THEN Outcome("NoCloseMatch", 0, inputValue,
                              [shown |-> SprintListing(availableSprints),
                               more |-> Max(Len(availableSprints) - 10, 0)])
                 ELSE Outcome("ok", best.index, <<>>, <<>>)

\* ---- getFieldId

RECURSIVE ReplaceSeparators(_)
\* .replace(/\s+|_|-/g, ' '): every run of blanks, and every single underscore
\* or hyphen, becomes one space.
ReplaceSeparators(s) ==
    IF s = <<>> THEN <<>>
    ELSE IF IsSpace(Head(s)) THEN <<" ">> \o ReplaceSeparators(trimStart(s))
    ELSE IF Head(s) \in {"_", "-"} THEN <<" ">> \o ReplaceSeparators(Tail(s))
    ELSE <<Head(s)>> \o ReplaceSeparators(Tail(s))

\* name.toLowerCase().trim().replace(/\s+|_|-/g, ' ')
NormalizeFieldName(name) == ReplaceSeparators(trim(toLowerCase(name)))

\* The distance of every catalog entry, in catalog order (the map of getFieldId).
FieldDistances(fieldName, allFields) ==
    [i \in 1..Len(allFields) |->
        levenshteinDistance(NormalizeFieldName(fieldName),
                            NormalizeFieldName(allFields[i].name))]

\* Mutation: the catalog is not ranked; its first entry is taken.
RankedFirst_Unranked(ds) == 1

\* .sort((a, b) => a.distance - b.distance)[0]: Array.prototype.sort is stable,
\* so the head of the ranking is the first entry of least distance.
RankedFirst(ds) ==
    CHOOSE i \in 1..Len(ds) :
        /\ \A j \in 1..Len(ds) : ds[i] <= ds[j]
        /\ \A j \in 1..(i - 1) : ds[j] > ds[i]

getFieldId(fieldName, allFields) ==
    IF Len(allFields) = 0 THEN Outcome("NoFields", 0, <<>>, <<>>)
    ELSE LET bestMatch == RankedFirst(FieldDistances(fieldName, allFields))
         IN  IF allFields[bestMatch].id = ""
               THEN Outcome("FieldNotFound", 0, fieldName, <<>>)
               ELSE Outcome("ok", bestMatch, <<>>, <<>>)

\* ---- the jira_transition_ticket handler

\* transitions.filter((transition) => transition.id && transition.name)
UsableTransitions(transitions) ==
    SelectSeq(transitions, LAMBDA t : t.id # "" /\ t.name # <<>>)

\* levenshteinDistance(statusName, transition.name), in list order
TransitionDistances(statusName, availableTransitions) ==
    [i \in 1..Len(availableTransitions) |->
        levenshteinDistance(statusName, availableTransitions[i].name)]

\* Mutation: the first available transition is taken whatever its distance.
BestTransition_AlwaysFirst(statusName, availableTransitions) == 1

\* availableTransitions.reduce(..., { distance: Infinity, transition: [0] })
BestTransition(statusName, availableTransitions) ==
    BestOf(TransitionDistances(statusName, availableTransitions)).index

\* ---- getPriorityFieldId

\* name.toLowerCase().trim().replace(/ /g, '').replace(/_/g, '').replace(/-/g, '')
StripSeparators(name) ==
    SelectSeq(trim(toLowerCase(name)), LAMBDA c : c \notin {" ", "_", "-"})

S_priority == <<"p", "r", "i", "o", "r", "i", "t", "y">>

\* fields.find(...) and the !priorityField.id test; fetched is None when the
\* catalog request failed. Every failure is rethrown as the same lookup error.
getPriorityFieldId(fetched) ==
    IF ~IsDefined(fetched) THEN ""
    ELSE LET priorityField ==
                 FindIndex([i \in 1..Len(fetched[1]) |->
                               StripSeparators(fetched[1][i].name) = S_priority])
         IN  IF priorityField = 0 THEN "" ELSE fetched[1][priorityField].id

-----------------------------------------------------------------------------
(* The inputs of the matchers                                              *)

InputAlphabet == {"a", "b", "A", " "}

S_hi == <<"h", "i">>

S_crit == <<"c", "r", "i", "t">>

S_xyz123 == <<"x", "y", "z", "1", "2", "3">>

\* The texts a caller supplies: every short text, and the documented examples.
Inputs == SeqsUpTo(InputAlphabet, MaxInputLen) \cup {S_hi, S_crit, S_xyz123}

Option(value, name) == [value |-> value, name |-> name]

\* Allowed values of an option field: plain, padded, differing by case, named
\* only, and one whose name differs from its value.
OptionCatalog ==
    { Option(Some(<<"a", "b">>), None),
      Option(Some(<<"a", " ", " ", " ">>), None),
      Option(Some(<<"b", "b", "b">>), None),
      Option(None, Some(<<"A", "B">>)),
      Option(Some(<<"x", "b">>), Some(<<"a", "b">>)) }

\* The allowed values of the documented examples, in catalog order.
PriorityOptions ==
    << Option(Some(<<"L", "o", "w">>), None),
       Option(Some(<<"M", "e", "d", "i", "u", "m">>), None),
       Option(Some(<<"H", "i", "g", "h">>), None),
       Option(Some(<<"C", "r", "i", "t", "i", "c", "a", "l">>), None) >>

OptionLists == SeqsUpTo(OptionCatalog, MaxCands) \cup {PriorityOptions}

Field(id, name) == [id |-> id, name |-> name]

\* Field catalogs as the fields endpoint answers them.
FieldCatalog ==
    { Field("f_ab", <<"a", " ", "b">>),
      Field("f_a_b", <<"A", "_", "b">>),
      Field("f_b", <<"b">>),
      Field("f_bbb", <<"b", "b", "b">>),
      Field("", <<"a">>),
      Field("f_prio", <<"P", "r", "i", "o", "r", "i", "t", "y">>) }

FieldLists == SeqsUpTo(FieldCatalog, MaxCands)

\* The catalogs updateTicketPriority may meet: request failed, or a catalog.
PriorityFetches ==
    { None,
      Some(<<Field("f_b", <<"b">>)>>),
      Some(<<Field("f_b", <<"b">>), Field("f_prio", <<"P", "r", "i", "o", "r", "i", "t", "y">>)>>),
      Some(<<Field("", <<"p", "r", "i", "-", "o", "r", "i", "t", "y">>)>>) }

Transition(id, name) == [id |-> id, name |-> name]

\* Transitions as the transitions endpoint answers them.
TransitionCatalog ==
    { Transition("11", <<"a", "b">>),
      Transition("21", <<"A", "b">>),
      Transition("31", <<"b", "b", "b">>),
      Transition("41", <<"x", "b">>),
      Transition("", <<"a">>),
      Transition("51", <<>>) }

TransitionLists == SeqsUpTo(TransitionCatalog, MaxCands)

Sprint(id, name, state) == [id |-> id, name |-> name, state |-> state]

\* Named sprints as the sprint resolution hands them to the matcher.
MatchSprintCatalog ==
    { Sprint(1, <<"a">>, "active"),
      Sprint(2, <<"a", "b", " ">>, "active"),
      Sprint(3, <<"A", "b">>, "future"),
      Sprint(4, <<"a", "a">>, "future"),
      Sprint(5, <<"b", "b", "b", "b", "b">>, "closed") }

\* The length of the longest sprint list handed to the matcher.
MaxListed == 11

\* A project with many sprints: n sprints of distinct names, none of them near
\* a short input, the first four active, the next four future, the rest closed.
ManySprints(n) ==
    [i \in 1..n |->
        Sprint(10 + i, <<"b", "b", "b", "b", "b">> \o [j \in 1..(i - 1) |-> "a"],
               IF i <= 4 THEN "active" ELSE IF i <= 8 THEN "future" ELSE "closed")]

\* The lists findBestMatchingSprint receives are sorted by state and name.
MatchSprintLists ==
    {Sort("sprints", l) : l \in SeqsUpTo(MatchSprintCatalog, MaxCands)}
        \cup {Sort("sprints", ManySprints(n)) : n \in {MaxListed - 1, MaxListed}}

-----------------------------------------------------------------------------
(* The matcher call sites as operations                                    *)

MatchInit ==
    /\ sys = "match"
    /\ DistanceIdle
    /\ ServedIdle
    /\ FindIdle
    /\ FieldCacheIdle
    /\ ProjectCacheIdle
    /\ PageIdle
    /\ SprintIdle
    /\ SearchIdle
    /\ DiffIdle
    /\ m_pc = "ready"
    /\ m_result = NoOutcome
    /\ m_sent = <<>>
    /\ m_input \in Inputs
    /\ \/ m_site = "option" /\ m_cands \in OptionLists
       \/ m_site = "sprint" /\ m_cands \in MatchSprintLists
       \/ m_site = "field" /\ m_cands \in FieldLists
       \/ m_site = "transition" /\ m_cands \in TransitionLists

\* What updateTicketPriority does, given the catalog fetched (None: the request
\* failed), the edit metadata of the ticket for the field (meta) and whether
\* the final editIssue succeeds: its outcome and the requests it sent.
updateTicketPriority(priority, fetched, meta, allowedValues, editOk) ==
    LET priorityFieldId == getPriorityFieldId(fetched)
        matched == findBestMatchingOption(priority, allowedValues)
        fail(kind) == [outcome |-> Outcome(kind, 0, <<>>, <<>>), sent |-> <<>>]
    IN  IF priorityFieldId = "" THEN fail("PriorityFieldNotFound")
        ELSE IF meta = "requestFailed" THEN fail("UpstreamRequestFailed")
        ELSE IF meta = "absent" THEN fail("FieldNotEditable")
        ELSE IF meta = "noAllowedValues" THEN fail("NotAnOptionField")
        ELSE IF matched.kind # "ok" THEN [outcome |-> matched, sent |-> <<>>]
        ELSE [outcome |-> IF editOk THEN matched
                          ELSE Outcome("EditFailed", matched.index, <<>>, <<>>),
              sent |-> <<[op |-> "editIssue", target |-> priorityFieldId,
                          value |-> matched.index]>>]

\* updateTicketPriority(ticketId, priority) against the upstream of this state.
UpdateTicketPriority ==
    /\ sys = "match" /\ m_site = "option" /\ m_pc = "ready"
    /\ \E fetched \in PriorityFetches, editOk \in BOOLEAN,
          meta \in {"requestFailed", "absent", "noAllowedValues", "allowedValues"} :
          LET r == updateTicketPriority(m_input, fetched, meta, m_cands, editOk)
          IN  m_result' = r.outcome /\ m_sent' = r.sent
    /\ m_pc' = "done"
    /\ UNCHANGED <<sys, glVars, fcVars, fbVars, sv_server, lvVars, qVars, dVars, pgVars, srVars, m_site, m_input, m_cands>>

\* findBestMatchingSprint(inputValue, availableSprints)
FindBestMatchingSprint ==
    /\ sys = "match" /\ m_site = "sprint" /\ m_pc = "ready"
    /\ m_result' = findBestMatchingSprint(m_input, m_cands)
    /\ m_pc' = "done"
    /\ UNCHANGED <<sys, glVars, fcVars, fbVars, sv_server, lvVars, qVars, dVars, pgVars, srVars, m_site, m_input, m_cands, m_sent>>

\* getFieldId(fieldName): the catalog request fails, or the catalog is ranked.
GetFieldId ==
    /\ sys = "match" /\ m_site = "field" /\ m_pc = "ready"
    /\ \E fetchOk \in BOOLEAN :
          m_result' = IF fetchOk THEN getFieldId(m_input, m_cands)
                      ELSE Outcome("UpstreamRequestFailed", 0, <<>>, <<>>)
    /\ m_pc' = "done"
    /\ UNCHANGED <<sys, glVars, fcVars, fbVars, sv_server, lvVars, qVars, dVars, pgVars, srVars, m_site, m_input, m_cands, m_sent>>

\* What the jira_transition_ticket handler does, given whether the transitions
\* request and the transition request succeed.
jiraTransitionTicket(statusName, transitions, fetchOk, transitionOk) ==
    LET availableTransitions == UsableTransitions(transitions)
        bestMatch == BestTransition(statusName, availableTransitions)
        fail(kind) == [outcome |-> Outcome(kind, 0, <<>>, <<>>), sent |-> <<>>]
    IN  IF ~fetchOk THEN fail("UpstreamRequestFailed")
        ELSE IF Len(availableTransitions) = 0 THEN fail("NoTransitions")
        ELSE [outcome |-> Outcome(IF transitionOk THEN "ok" ELSE "TransitionFailed",
                                  bestMatch, <<>>, <<>>),
              sent |-> <<[op |-> "doTransition", target |-> "ticket",
                          value |-> availableTransitions[bestMatch].id]>>]

\* case 'jira_transition_ticket' of the tool dispatcher.
JiraTransitionTicket ==
    /\ sys = "match" /\ m_site = "transition" /\ m_pc = "ready"
    /\ \E fetchOk \in BOOLEAN, transitionOk \in BOOLEAN :
          LET r == jiraTransitionTicket(m_input, m_cands, fetchOk, transitionOk)
          IN  m_result' = r.outcome /\ m_sent' = r.sent
    /\ m_pc' = "done"
    /\ UNCHANGED <<sys, glVars, fcVars, fbVars, sv_server, lvVars, qVars, dVars, pgVars, srVars, m_site, m_input, m_cands>>

MatchNext ==
    UpdateTicketPriority \/ FindBestMatchingSprint \/ GetFieldId \/ JiraTransitionTicket

SpecMatch == MatchInit /\ [][MatchNext]_vars

-----------------------------------------------------------------------------
(* Exhaustive pagination: getAllBoards and getSprintsForBoard              *)

\* const pageSize = 50
pageSize == 50

\* Bound on the number of page requests of one run whose requests and answers
\* the histories record.
MaxRequests == 3

\* The largest total a page envelope reports in the model.
MaxTotal == 3

\* The "values" member of a page envelope: absent (which the loop reads as the
\* empty page, result.values || []), or a list of items.
PageValues == {None} \cup {Some(p) : p \in {<<1>>, <<2>>}}

\* The "total" member: absent, or a count.
PageTotals == {None} \cup {Some(t) : t \in 0..MaxTotal}

\* The "isLast" member: absent, or a flag.
PageFlags == {None, Some(TRUE), Some(FALSE)}

\* A page envelope {values, total, isLast} as the server answers it.
PageEnvelopes == [values : PageValues, total : PageTotals, isLast : PageFlags]

\* result.values || []
ValuesOf(env) == IF IsDefined(env.values) THEN env.values[1] ELSE <<>>

\* result.total || 0
TotalOf(env) == IF IsDefined(env.total) THEN env.total[1] ELSE 0

\* result.isLast || false
IsLastOf(env) == IF IsDefined(env.isLast) THEN env.isLast[1] ELSE FALSE

\* Mutation: the offset advances by the number of items received.
NextStartAt_ByItems(startAt, page) == startAt + Len(page)

\* startAt += pageSize
NextStartAt(startAt, page) == startAt + pageSize

\* allBoards.concat(currentPageBoards)
Accumulate(all, page) == all \o page

\* the safety check: if (!isLastPage && all.length >= totalCount) isLastPage = true
StopsAfter(all, totalCount, isLast) == isLast \/ Len(all) >= totalCount

\* What is remembered of the whole run: whether every page so far reported one
\* and the same total without signalling isLast, whether requests were issued
\* past the recorded ones, and the parity of their number.
Watch(fixed, beyond, tick) == [fixed |-> fixed, beyond |-> beyond, tick |-> tick]

\* The locals of getAllBoards / getSprintsForBoard on entry to the do-loop.
PageInit ==
    /\ sys = "page"
    /\ DistanceIdle
    /\ ServedIdle
    /\ FindIdle
    /\ FieldCacheIdle
    /\ ProjectCacheIdle
    /\ MatchIdle
    /\ SprintIdle
    /\ SearchIdle
    /\ DiffIdle
    /\ pg_kind \in {"boards", "sprints"}
    /\ pg_pc = "loop"
    /\ pg_startAt = 0
    /\ pg_all = <<>>
    /\ pg_totalCount = 0
    /\ pg_isLastPage = FALSE
    /\ pg_requests = <<>>
    /\ pg_responses = <<>>
    /\ pg_watch = Watch(TRUE, FALSE, 0)
    /\ pg_result = None

\* The request of this iteration is one of the first MaxRequests, which the
\* histories record in full.
Recorded == ~pg_watch.beyond /\ Len(pg_requests) < MaxRequests

\* One iteration of the do-loop whose request is answered with envelope env.
\* Past the recorded requests the loop runs on: the histories are dropped and
\* the offset, which no longer differs in anything the loop reads, is held.
PageIteration(env) ==
    LET all == Accumulate(pg_all, ValuesOf(env))
        total == TotalOf(env)
        last == StopsAfter(all, total, IsLastOf(env))
    IN  /\ pg_requests' =
              IF Recorded
                THEN Append(pg_requests, [endpoint |-> pg_kind, startAt |-> pg_startAt,
                                          maxResults |-> pageSize])
                ELSE <<>>
        /\ pg_responses' = IF Recorded THEN Append(pg_responses, env) ELSE <<>>
        /\ pg_watch' =
              Watch(/\ pg_watch.fixed
                    /\ IsDefined(env.total)
                    /\ ~IsLastOf(env)
                    /\ ((Recorded /\ pg_requests = <<>>) \/ env.total[1] = pg_totalCount),
                    ~Recorded,
                    IF Recorded THEN 0 ELSE 1 - pg_watch.tick)
        /\ pg_all' = all
        /\ pg_totalCount' = total
        /\ pg_startAt' = IF Recorded THEN NextStartAt(pg_startAt, ValuesOf(env))
                         ELSE pg_startAt
        /\ pg_isLastPage' = last
        /\ IF last
             THEN /\ pg_pc' = "done"
                  /\ pg_result' = Some([values |-> all, total |-> total, isLast |-> last])
             ELSE /\ pg_pc' = "loop"
                  /\ pg_result' = pg_result

\* getAllBoards: one page request answered by the server.
GetAllBoardsPage ==
    /\ sys = "page" /\ pg_kind = "boards" /\ pg_pc = "loop"
    /\ \E env \in PageEnvelopes : PageIteration(env)
    /\ UNCHANGED <<sys, glVars, fcVars, fbVars, sv_server, lvVars, qVars, dVars, pg_kind, mVars, srVars>>

\* getSprintsForBoard: one page request answered by the server.
GetSprintsForBoardPage ==
    /\ sys = "page" /\ pg_kind = "sprints" /\ pg_pc = "loop"
    /\ \E env \in PageEnvelopes : PageIteration(env)
    /\ UNCHANGED <<sys, glVars, fcVars, fbVars, sv_server, lvVars, qVars, dVars, pg_kind, mVars, srVars>>

\* makeAgileRequest throws (non-2xx answer): the catch block rethrows.
PageRequestFails ==
    /\ sys = "page" /\ pg_pc = "loop"
    /\ pg_requests' =
          IF Recorded
            THEN Append(pg_requests, [endpoint |-> pg_kind, startAt |-> pg_startAt,
                                      maxResults |-> pageSize])
            ELSE <<>>
    /\ pg_responses' = IF Recorded THEN pg_responses ELSE <<>>
    /\ pg_watch' = Watch(pg_watch.fixed, pg_watch.beyond \/ ~Recorded, pg_watch.tick)
    /\ pg_pc' = "failed"
    /\ UNCHANGED <<sys, glVars, fcVars, fbVars, sv_server, lvVars, qVars, dVars, pg_kind, pg_startAt, pg_all, pg_totalCount, pg_isLastPage,
                   pg_result, mVars, srVars>>

PageNext == GetAllBoardsPage \/ GetSprintsForBoardPage \/ PageRequestFails

SpecPage == PageInit /\ [][PageNext]_vars

\* The loop keeps running as long as the server keeps answering.
FairSpecPage == PageInit /\ [][PageNext]_vars /\ WF_vars(GetAllBoardsPage)
                    /\ WF_vars(GetSprintsForBoardPage)

-----------------------------------------------------------------------------
(* The pagination loop against a server that serves a fixed list           *)

\* The lengths of the list the server holds.
ServedCounts == {0, 1, 2, 3, 50, 51, 100, 101}

\* The server's own page cap: the most items it puts in one page.
ServerCaps == {1, 2, 49, 50}

\* A server holding the items 1..n under the page cap.
Server(n, cap) == [items |-> [i \in 1..n |-> i], cap |-> cap]

\* The answer to a request at offset startAt asking for maxResults items: the
\* slice of at most cap items from the offset, the length of the list, and
\* isLast exactly when the slice reaches the end of the list.
ServerPage(server, startAt, maxResults) ==
    LET n == Len(server.items)
        slice == SubSeq(server.items, startAt + 1,
                        Min(startAt + Min(server.cap, maxResults), n))
    IN  [values |-> Some(slice), total |-> Some(n),
         isLast |-> Some(startAt + Len(slice) >= n)]

\* The locals of getAllBoards / getSprintsForBoard on entry to the do-loop,
\* and the server the requests go to.
ServedInit ==
    /\ sys = "served"
    /\ MatchIdle
    /\ SprintIdle
    /\ SearchIdle
    /\ DiffIdle
    /\ DistanceIdle
    /\ FindIdle
    /\ FieldCacheIdle
    /\ ProjectCacheIdle
    /\ sv_server \in {Server(n, cap) : n \in ServedCounts, cap \in ServerCaps}
    /\ pg_kind \in {"boards", "sprints"}
    /\ pg_pc = "loop"
    /\ pg_startAt = 0
    /\ pg_all = <<>>
    /\ pg_totalCount = 0
    /\ pg_isLastPage = FALSE
    /\ pg_requests = <<>>
    /\ pg_responses = <<>>
    /\ pg_watch = Watch(TRUE, FALSE, 0)
    /\ pg_result = None

\* getAllBoards: one page request answered by the server of this state.
ServedBoardsPage ==
    /\ sys = "served" /\ pg_kind = "boards" /\ pg_pc = "loop"
    /\ PageIteration(ServerPage(sv_server, pg_startAt, pageSize))
    /\ UNCHANGED <<sys, glVars, fcVars, fbVars, sv_server, pg_kind, mVars, srVars, qVars, dVars, lvVars>>

\* getSprintsForBoard: one page request answered by the server of this state.
ServedSprintsPage ==
    /\ sys = "served" /\ pg_kind = "sprints" /\ pg_pc = "loop"
    /\ PageIteration(ServerPage(sv_server, pg_startAt, pageSize))
    /\ UNCHANGED <<sys, glVars, fcVars, fbVars, sv_server, pg_kind, mVars, srVars, qVars, dVars, lvVars>>

ServedNext == ServedBoardsPage \/ ServedSprintsPage

SpecServed == ServedInit /\ [][ServedNext]_vars

-----------------------------------------------------------------------------
(* updateTicketSprint and the sprint resolution for a ticket or a board     *)

\* Bound on the number of boards of the catalog the upstream lists.
MaxBoards == 2

\* String.prototype.includes
Includes(s, sub) ==
    \E i \in 0..(Len(s) - Len(sub)) : SubSeq(s, i + 1, i + Len(sub)) = sub

S_AB == <<"A", "B">>

S_X == <<"X">>

\* issue.fields.project?.key as the upstream answers it.
TicketProjects == {None, Some(S_AB), Some(S_X)}

\* The sprints of the upstream; a sprint listed by several boards is the same
\* sprint. The name <<>> is a sprint without a name.
SprintPool ==
    << Sprint(1, <<"b">>, "active"),
       Sprint(2, <<"a">>, "future"),
       Sprint(3, <<>>, "active"),
       Sprint(4, <<"a">>, "active"),
       Sprint(5, <<"A">>, "closed"),
       Sprint(6, <<"c">>, "closed") >>

Board(id, name, type, projectKey, sprintIds) ==
    [id |-> id, name |-> name, type |-> type, projectKey |-> projectKey,
     sprints |-> [i \in 1..Len(sprintIds) |-> SprintPool[sprintIds[i]]]]

\* Boards as the board endpoint lists them, each with the sprints its sprint
\* endpoint lists: located in the project, named after it, located in a project
\* whose key differs by case only, and without sprints.
BoardCatalog ==
    { Board(1, <<"b", "1">>, "kanban", Some(S_AB), <<6, 1, 2>>),
      Board(2, <<"a", "b", " ", "2">>, "scrum", None, <<2, 3, 5, 4, 1>>),
      Board(3, <<"x">>, "scrum", Some(<<"a", "b">>), <<1>>),
      Board(4, <<"A", "B">>, "scrum", None, <<>>),
      Board(5, <<"a", "b">>, "kanban", Some(S_AB), <<3>>) }

\* A board of another project; i numbers such boards.
FillerBoard(i) == Board(100 + i, <<"z">>, "kanban", Some(<<"Z">>), <<>>)

\* How many boards of other projects the upstream lists after the catalog's.
Fillers == {0, 49}

\* A listing names each board once.
BoardLists ==
    {l \in SeqsUpTo(BoardCatalog, MaxBoards) : \A i, j \in 1..Len(l) : i # j => l[i] # l[j]}

Servers == [boards : BoardLists, filler : Fillers]

\* The boards getAllBoards returns for the upstream of this state.
BoardListing(server) ==
    server.boards \o [i \in 1..server.filler |-> FillerBoard(i)]

\* The predicate of allBoardsResult.values.filter
IsProjectBoard(board, projectKey) ==
    \/ board.projectKey = Some(projectKey)
    \/ Includes(toLowerCase(board.name), toLowerCase(projectKey))

ProjectBoards(listing, projectKey) ==
    SelectSeq(listing, LAMBDA board : IsProjectBoard(board, projectKey))

\* `"${b.name}" (ID: ${b.id}, Type: ${b.type})`
BoardLine(b) == [name |-> b.name, id |-> b.id, type |-> b.type]

\* Mutation: the hint lists every board.
HintBoards_All(listing) == [i \in 1..Len(listing) |-> BoardLine(listing[i])]

\* helpBoardsResult.values.slice(0, 50).map(...)
HintBoards(listing) == [i \in 1..Min(Len(listing), 50) |-> BoardLine(listing[i])]

\* Mutation: the sprints of a board replace those collected so far.
PushSprints_Replace(allSprints, fetched) == fetched

\* allSprints.push(...sprintsResult.values)
PushSprints(allSprints, fetched) == allSprints \o fetched

\* Mutation: unnamed sprints are dropped but repeated ids are kept.
UniqueSprints_NoDedup(allSprints) ==
    SelectSeq(allSprints, LAMBDA sprint : sprint.name # <<>>)

\* allSprints.filter((sprint, index, self) =>
\*     sprint.name && index === self.findIndex((s) => s.id === sprint.id))
UniqueSprints(allSprints) ==
    LET keep(index) ==
            /\ allSprints[index].name # <<>>
            /\ \A j \in 1..(index - 1) : allSprints[j].id # allSprints[index].id
        RECURSIVE from(_)
        from(index) ==
            IF index > Len(allSprints) THEN <<>>
            ELSE (IF keep(index) THEN <<allSprints[index]>> ELSE <<>>) \o from(index + 1)
    IN  from(1)

SprintResult(kind, sprints, hint, errors) ==
    [kind |-> kind, sprints |-> sprints, hint |-> hint, errors |-> errors]

SprintFailure(kind) == SprintResult(kind, <<>>, <<>>, <<>>)

\* The statements after the for loop: the NoSprintsFound failure, or the
\* de-duplicated, named, sorted list.
CollectSprints(prioritizedBoards, allSprints, boardErrors) ==
    IF Len(allSprints) = 0
      THEN SprintResult("NoSprintsFound", <<>>,
                        [i \in 1..Len(prioritizedBoards) |-> BoardLine(prioritizedBoards[i])],
                        boardErrors)
      ELSE SprintResult("ok", Sort("sprints", UniqueSprints(allSprints)), <<>>, <<>>)

\* ---- updateTicketSprint

\* The sprint names callers ask for.
SprintNames == {<<"a">>, <<"c">>, <<"b", " ">>, <<"z", "z", "z", "z", "z">>}

\* The boardId argument: absent, a board of the catalog, or no board at all.
BoardIds == {None, Some(1), Some(2), Some(9)}

S_sprint == <<"s", "p", "r", "i", "n", "t">>

\* field.schema?.custom of the Greenhopper sprint field
GhSprint == "com.pyxis.greenhopper.jira:gh-sprint"

SprintField(id, name, custom) == [id |-> id, name |-> name, custom |-> custom]

\* Fields as the fields endpoint answers them: the Greenhopper sprint field,
\* a field only named after sprints, a sprint field without an id, and a
\* field that has nothing to do with sprints.
SprintFieldCatalog ==
    { SprintField("customfield_10020", <<"S", "p", "r", "i", "n", "t">>, GhSprint),
      SprintField("customfield_10021", <<"M", " ", "s", "p", "r", "i", "n", "t", "s">>, ""),
      SprintField("", <<"S", "p", "r", "i", "n", "t">>, GhSprint),
      SprintField("summary", <<"a">>, "") }

\* The catalogs updateTicketSprint may meet: request failed, or a catalog.
SprintFieldFetches == {None} \cup {Some(l) : l \in SeqsUpTo(SprintFieldCatalog, 2)}

\* fields.find(...) and the !sprintField.id test; fetched is None when the
\* catalog request failed. Every failure is rethrown as the same lookup error,
\* here the empty id.
getSprintFieldId(fetched) ==
    IF ~IsDefined(fetched) THEN ""
    ELSE LET sprintField ==
                 FindIndex([i \in 1..Len(fetched[1]) |->
                               \/ fetched[1][i].custom = GhSprint
                               \/ Includes(toLowerCase(fetched[1][i].name), S_sprint)])
         IN  IF sprintField = 0 THEN "" ELSE fetched[1][sprintField].id

\* sprintsResult.values.filter(sprint => sprint.name)
NamedSprints(values) == SelectSeq(values, LAMBDA sprint : sprint.name # <<>>)

\* A JSON number and a JSON array as they stand in a request body.
JsonNumber(n) == [json |-> "number", of |-> <<n>>]

JsonArray(items) == [json |-> "array", of |-> items]

\* const updatePayload = { fields: { [sprintFieldId]: sprintId } }
SprintPayload(sprintFieldId, sprintId) ==
    [op |-> "editIssue", target |-> sprintFieldId, value |-> JsonNumber(sprintId)]

\* How the upstream may write the id of a sprint: as a number, as a string
\* of its digits, or as a string that is not a number.
SprintIdForms == {"number", "digits", "text"}

\* typeof id === 'string' ? parseInt(id, 10) : id -- None stands for NaN.
SprintIdNumber(idForm, id) == IF idForm = "text" THEN None ELSE Some(id)

\* What updateTicketSprint does once the available sprints are resolved, a
\* mutation: the editIssue request goes out before the sprint id is checked.
updateTicketSprint_EditsFirst(sprintFieldId, sprintName, availableSprints, idForm, editOk) ==
    LET matched == findBestMatchingSprint(sprintName, availableSprints)
    IN  IF matched.kind # "ok" THEN [outcome |-> matched, sent |-> <<>>]
        ELSE [outcome |-> IF ~IsDefined(SprintIdNumber(idForm, 0))
                            THEN Outcome("InvalidSprintId", matched.index, <<>>, <<>>)
                          ELSE IF editOk THEN matched
                          ELSE Outcome("EditFailed", matched.index, <<>>, <<>>),
              sent |-> <<SprintPayload(sprintFieldId,
                                       availableSprints[matched.index].id)>>]

\* What updateTicketSprint does once the available sprints are resolved: the
\* match, the conversion of the sprint id to a number, which fails on a string
\* that is no number, and the editIssue request, which succeeds or fails.
updateTicketSprint(sprintFieldId, sprintName, availableSprints, idForm, editOk) ==
    LET matched == findBestMatchingSprint(sprintName, availableSprints)
        sprintId == IF matched.kind = "ok"
                    THEN SprintIdNumber(idForm, availableSprints[matched.index].id)
                    ELSE None
    IN  IF matched.kind # "ok" THEN [outcome |-> matched, sent |-> <<>>]
        ELSE IF ~IsDefined(sprintId)
          THEN [outcome |-> Outcome("InvalidSprintId", matched.index, <<>>, <<>>),
                sent |-> <<>>]
        ELSE [outcome |-> IF editOk THEN matched
                          ELSE Outcome("EditFailed", matched.index, <<>>, <<>>),
              sent |-> <<SprintPayload(sprintFieldId, sprintId[1])>>]

SprintInit ==
    /\ sys = "sprint"
    /\ DistanceIdle
    /\ ServedIdle
    /\ FindIdle
    /\ FieldCacheIdle
    /\ ProjectCacheIdle
    /\ PageIdle
    /\ MatchIdle
    /\ SearchIdle
    /\ DiffIdle
    /\ sr_pc = "sprintField"
    /\ sr_sprintName \in SprintNames
    /\ sr_boardId \in BoardIds
    /\ sr_fieldId = ""
    /\ sr_sent = <<>>
    /\ sr_update = NoOutcome
    /\ sr_ticket \in TicketProjects
    /\ sr_server \in Servers
    /\ sr_projectKey = <<>>
    /\ sr_boards = <<>>
    /\ sr_i = 0
    /\ sr_allSprints = <<>>
    /\ sr_boardErrors = <<>>
    /\ sr_requests = <<>>
    /\ sr_result = <<>>

SprintRequest(op, board, ok) == [op |-> op, board |-> board, ok |-> ok]

\* const projectKey = await this.getTicketProjectKey(ticketId)
GetTicketProjectKey ==
    /\ sys = "sprint" /\ sr_pc = "projectKey"
    /\ \E ok \in BOOLEAN :
          /\ sr_requests' = Append(sr_requests, SprintRequest("getIssue", 0, ok))
          /\ IF ~ok
               THEN /\ sr_result' = SprintFailure("UpstreamRequestFailed")
                    /\ sr_pc' = "done"
                    /\ UNCHANGED sr_projectKey
             ELSE IF ~IsDefined(sr_ticket)
               THEN /\ sr_result' = SprintFailure("NoProjectKey")
                    /\ sr_pc' = "done"
                    /\ UNCHANGED sr_projectKey
             ELSE /\ sr_projectKey' = sr_ticket[1]
                  /\ sr_pc' = "boards"
                  /\ UNCHANGED sr_result
    /\ UNCHANGED <<sys, glVars, fcVars, fbVars, sv_server, lvVars, qVars, dVars, pgVars, mVars, sr_ticket, sr_server, sr_boards, sr_i,
                   sr_allSprints, sr_boardErrors,
                   suVars>>

\* const allBoardsResult = await this.getAllBoards(), the filter and the sort.
GetProjectBoards ==
    /\ sys = "sprint" /\ sr_pc = "boards"
    /\ \E ok \in BOOLEAN :
          /\ sr_requests' = Append(sr_requests, SprintRequest("getAllBoards", 0, ok))
          /\ LET projectBoards == ProjectBoards(BoardListing(sr_server), sr_projectKey)
             IN  IF ~ok
                   THEN /\ sr_result' = SprintFailure("UpstreamRequestFailed")
                        /\ sr_pc' = "done"
                        /\ UNCHANGED <<sr_boards, sr_i>>
                 ELSE IF Len(projectBoards) = 0
                   THEN /\ sr_pc' = "help"
                        /\ UNCHANGED <<sr_result, sr_boards, sr_i>>
                 ELSE /\ sr_boards' = Sort("boards", projectBoards)
                      /\ sr_i' = 1
                      /\ sr_pc' = "sprints"
                      /\ UNCHANGED sr_result
    /\ UNCHANGED <<sys, glVars, fcVars, fbVars, sv_server, lvVars, qVars, dVars, pgVars, mVars, sr_ticket, sr_server, sr_projectKey,
                   sr_allSprints, sr_boardErrors,
                   suVars>>

\* const helpBoardsResult = await this.getAllBoards() and the throw.
GetHelpBoards ==
    /\ sys = "sprint" /\ sr_pc = "help"
    /\ \E ok \in BOOLEAN :
          /\ sr_requests' = Append(sr_requests, SprintRequest("getAllBoards", 0, ok))
          /\ sr_result' =
                IF ok THEN SprintResult("NoBoardsFound", <<>>,
                                        HintBoards(BoardListing(sr_server)), <<>>)
                ELSE SprintFailure("UpstreamRequestFailed")
    /\ sr_pc' = "done"
    /\ UNCHANGED <<sys, glVars, fcVars, fbVars, sv_server, lvVars, qVars, dVars, pgVars, mVars, sr_ticket, sr_server, sr_projectKey, sr_boards,
                   sr_i, sr_allSprints, sr_boardErrors,
                   suVars>>

\* One iteration of for (const board of prioritizedBoards): the sprint request
\* for the board, answered or failing; after the last board, the statements
\* that follow the loop.
GetBoardSprints ==
    /\ sys = "sprint" /\ sr_pc = "sprints"
    /\ \E ok \in BOOLEAN :
          LET board == sr_boards[sr_i]
              allSprints == IF ok THEN PushSprints(sr_allSprints, board.sprints)
                            ELSE sr_allSprints
              boardErrors == IF ok THEN sr_boardErrors
                             ELSE Append(sr_boardErrors, BoardLine(board))
          IN  /\ sr_requests' =
                    Append(sr_requests, SprintRequest("getSprintsForBoard", board.id, ok))
              /\ sr_allSprints' = allSprints
              /\ sr_boardErrors' = boardErrors
              /\ IF sr_i < Len(sr_boards)
                   THEN /\ sr_i' = sr_i + 1
                        /\ UNCHANGED <<sr_pc, sr_result>>
                   ELSE /\ sr_result' = CollectSprints(sr_boards, allSprints, boardErrors)
                        /\ sr_pc' = "done"
                        /\ UNCHANGED sr_i
    /\ UNCHANGED <<sys, glVars, fcVars, fbVars, sv_server, lvVars, qVars, dVars, pgVars, mVars, sr_ticket, sr_server, sr_projectKey, sr_boards,
                   suVars>>

\* const sprintFieldId = await this.getSprintFieldId(), and the choice between
\* the board given and the boards of the ticket's project.
GetSprintFieldId ==
    /\ sys = "sprint" /\ sr_pc = "sprintField"
    /\ \E fetched \in SprintFieldFetches :
          LET sprintFieldId == getSprintFieldId(fetched)
          IN  IF sprintFieldId = ""
                THEN /\ sr_update' = Outcome("SprintFieldNotFound", 0, <<>>, <<>>)
                     /\ sr_pc' = "finished"
                     /\ UNCHANGED sr_fieldId
                ELSE /\ sr_fieldId' = sprintFieldId
                     /\ sr_pc' = IF IsDefined(sr_boardId) THEN "board" ELSE "projectKey"
                     /\ UNCHANGED sr_update
    /\ UNCHANGED <<sys, glVars, fcVars, fbVars, sv_server, lvVars, qVars, dVars, pgVars, mVars, sr_ticket, sr_server, sr_projectKey, sr_boards,
                   sr_i, sr_allSprints, sr_boardErrors, sr_requests, sr_result,
                   sr_sprintName, sr_boardId, sr_sent>>

\* getAvailableSprintsForBoard: await this.getBoardById(boardId). The request
\* for a board the upstream does not list fails.
GetBoardById ==
    /\ sys = "sprint" /\ sr_pc = "board"
    /\ \E ok \in BOOLEAN :
          /\ ok => \E i \in 1..Len(sr_server.boards) :
                       sr_server.boards[i].id = sr_boardId[1]
          /\ sr_requests' = Append(sr_requests, SprintRequest("getBoardById", sr_boardId[1], ok))
          /\ sr_pc' = IF ok THEN "boardSprints" ELSE "boardHelp"
    /\ UNCHANGED <<sys, glVars, fcVars, fbVars, sv_server, lvVars, qVars, dVars, pgVars, mVars, sr_ticket, sr_server, sr_projectKey, sr_boards,
                   sr_i, sr_allSprints, sr_boardErrors, sr_result, suVars>>

\* getAvailableSprintsForBoard, the catch of the board request: the boards are
\* listed for the message and the failure is thrown.
GetBoardHelp ==
    /\ sys = "sprint" /\ sr_pc = "boardHelp"
    /\ \E ok \in BOOLEAN :
          /\ sr_requests' = Append(sr_requests, SprintRequest("getAllBoards", 0, ok))
          /\ sr_result' =
                IF ok THEN SprintResult("BoardNotFound", <<>>,
                                        HintBoards(BoardListing(sr_server)), <<>>)
                ELSE SprintFailure("UpstreamRequestFailed")
    /\ sr_pc' = "done"
    /\ UNCHANGED <<sys, glVars, fcVars, fbVars, sv_server, lvVars, qVars, dVars, pgVars, mVars, sr_ticket, sr_server, sr_projectKey, sr_boards,
                   sr_i, sr_allSprints, sr_boardErrors, suVars>>

\* getAvailableSprintsForBoard: the sprint request for the board, the filter
\* of unnamed sprints and the sort.
GetSprintsOfBoard ==
    /\ sys = "sprint" /\ sr_pc = "boardSprints"
    /\ \E ok \in BOOLEAN :
          LET k == CHOOSE i \in 1..Len(sr_server.boards) :
                                   sr_server.boards[i].id = sr_boardId[1]
              board == sr_server.boards[k]
          IN  /\ sr_requests' =
                    Append(sr_requests, SprintRequest("getSprintsForBoard", board.id, ok))
              /\ sr_result' =
                    IF ok THEN SprintResult("ok", Sort("sprints", NamedSprints(board.sprints)),
                                            <<>>, <<>>)
                    ELSE SprintFailure("UpstreamRequestFailed")
    /\ sr_pc' = "done"
    /\ UNCHANGED <<sys, glVars, fcVars, fbVars, sv_server, lvVars, qVars, dVars, pgVars, mVars, sr_ticket, sr_server, sr_projectKey, sr_boards,
                   sr_i, sr_allSprints, sr_boardErrors, suVars>>

\* The rest of updateTicketSprint once the available sprints are returned:
\* findBestMatchingSprint, the sprint id check and the editIssue request.
AssignSprint ==
    /\ sys = "sprint" /\ sr_pc = "done" /\ sr_result.kind = "ok"
    /\ \E idForm \in SprintIdForms, editOk \in BOOLEAN :
          LET r == updateTicketSprint(sr_fieldId, sr_sprintName, sr_result.sprints,
                                      idForm, editOk)
          IN  sr_update' = r.outcome /\ sr_sent' = r.sent
    /\ sr_pc' = "finished"
    /\ UNCHANGED <<sys, glVars, fcVars, fbVars, sv_server, lvVars, qVars, dVars, pgVars, mVars, sr_ticket, sr_server, sr_projectKey, sr_boards,
                   sr_i, sr_allSprints, sr_boardErrors, sr_requests, sr_result,
                   sr_sprintName, sr_boardId, sr_fieldId>>

SprintNext ==
    \/ GetSprintFieldId
    \/ GetTicketProjectKey \/ GetProjectBoards \/ GetHelpBoards \/ GetBoardSprints
    \/ GetBoardById \/ GetBoardHelp \/ GetSprintsOfBoard
    \/ AssignSprint

SpecSprint == SprintInit /\ [][SprintNext]_vars

-----------------------------------------------------------------------------
(* updateTicketPriority and updateTicketSprint together                    *)

UpdateInit == (MatchInit /\ m_site = "option") \/ SprintInit

UpdateNext == UpdateTicketPriority \/ SprintNext

SpecUpdate == UpdateInit /\ [][UpdateNext]_vars

-----------------------------------------------------------------------------
(* searchTickets: the JQL built from the criteria                          *)

\* A template literal is a sequence of pieces: the literal text between the
\* interpolations, an interpolated string value, an interpolated number.
Lit(s) == [is |-> "lit", lit |-> s, val |-> <<>>, num |-> 0]

Val(v) == [is |-> "val", lit |-> "", val |-> v, num |-> 0]

Num(n) == [is |-> "num", lit |-> "", val |-> <<>>, num |-> n]

\* if (criteria.x) for a string, a number and a boolean property
TextGiven(o) == IsDefined(o) /\ o[1] # <<>>

NumberGiven(o) == IsDefined(o) /\ o[1] # 0

FlagGiven(o) == IsDefined(o) /\ o[1]

RECURSIVE splitFrom(_, _, _)
\* The tokens of s from here on, cur being the token under way and inRun
\* telling that the previous character was a blank.
splitFrom(s, cur, inRun) ==
    IF s = <<>> THEN <<cur>>
    ELSE IF IsSpace(Head(s))
      THEN IF inRun THEN splitFrom(Tail(s), cur, TRUE)
           ELSE <<cur>> \o splitFrom(Tail(s), <<>>, TRUE)
    ELSE splitFrom(Tail(s), Append(cur, Head(s)), FALSE)

\* String.prototype.split(/\s+/)
splitBlanks(s) == splitFrom(s, <<>>, FALSE)

\* Array.prototype.join for arrays of piece sequences
RECURSIVE JoinPieces(_, _)
JoinPieces(parts, sep) ==
    IF Len(parts) = 0 THEN <<>>
    ELSE IF Len(parts) = 1 THEN parts[1]
    ELSE parts[1] \o <<Lit(sep)>> \o JoinPieces(Tail(parts), sep)

\* `(${...})`
Parenthesized(pieces) == <<Lit("(")>> \o pieces \o <<Lit(")")>>

SynonymEntry(key, labels) == [key |-> key, labels |-> labels]

\* const statusMap
statusMap ==
    << SynonymEntry(<<"o", "p", "e", "n">>, <<"Open", "To Do", "New">>),
       SynonymEntry(<<"p", "r", "o", "g", "r", "e", "s", "s">>,
                    <<"In Progress", "In Development", "In Review">>),
       SynonymEntry(<<"r", "e", "v", "i", "e", "w">>,
                    <<"In Review", "Code Review", "Peer Review">>),
       SynonymEntry(<<"t", "e", "s", "t", "i", "n", "g">>, <<"Testing", "QA", "In Testing">>),
       SynonymEntry(<<"d", "o", "n", "e">>, <<"Done", "Closed", "Resolved", "Complete">>),
       SynonymEntry(<<"c", "l", "o", "s", "e", "d">>, <<"Closed", "Done", "Resolved">>) >>

\* Mutation: "urgent" carries the labels of "high".
priorityMap_UrgentAsHigh ==
    << SynonymEntry(<<"h", "i", "g", "h">>, <<"High", "Highest", "Critical", "Urgent">>),
       SynonymEntry(<<"m", "e", "d", "i", "u", "m">>, <<"Medium", "Normal">>),
       SynonymEntry(<<"l", "o", "w">>, <<"Low", "Lowest", "Minor", "Trivial">>),
       SynonymEntry(<<"c", "r", "i", "t", "i", "c", "a", "l">>, <<"Critical", "Highest">>),
       SynonymEntry(<<"u", "r", "g", "e", "n", "t">>,
                    <<"High", "Highest", "Critical", "Urgent">>) >>

\* const priorityMap
priorityMap ==
    << SynonymEntry(<<"h", "i", "g", "h">>, <<"High", "Highest", "Critical", "Urgent">>),
       SynonymEntry(<<"m", "e", "d", "i", "u", "m">>, <<"Medium", "Normal">>),
       SynonymEntry(<<"l", "o", "w">>, <<"Low", "Lowest", "Minor", "Trivial">>),
       SynonymEntry(<<"c", "r", "i", "t", "i", "c", "a", "l">>, <<"Critical", "Highest">>),
       SynonymEntry(<<"u", "r", "g", "e", "n", "t">>, <<"Urgent", "High", "Highest">>) >>

\* const typeMap
typeMap ==
    << SynonymEntry(<<"b", "u", "g">>, <<"Bug", "Defect", "Issue">>),
       SynonymEntry(<<"s", "t", "o", "r", "y">>, <<"Story", "User Story">>),
       SynonymEntry(<<"t", "a", "s", "k">>, <<"Task", "To Do">>),
       SynonymEntry(<<"e", "p", "i", "c">>, <<"Epic">>),
       SynonymEntry(<<"f", "e", "a", "t", "u", "r", "e">>,
                    <<"Feature", "New Feature", "Story">>) >>

\* The condition of a field that has a synonym table: the parenthesized
\* OR-group over the labels of the entry the lowercased value names, or the
\* exact match of the value as given.
SynonymCondition(field, map, value) ==
    LET matches == FindIndex([i \in 1..Len(map) |-> map[i].key = toLowerCase(value)])
        exact(label) == <<Lit(field \o " = \""), Lit(label), Lit("\"")>>
    IN  IF matches # 0
          THEN Parenthesized(JoinPieces([i \in 1..Len(map[matches].labels) |->
                                            exact(map[matches].labels[i])], " OR "))
          ELSE <<Lit(field \o " = \""), Val(value), Lit("\"")>>

\* Project filter
ProjectConditions(criteria) ==
    IF ~TextGiven(criteria.projectKey) THEN <<>>
    ELSE LET projectKey == criteria.projectKey[1]
         IN  IF Includes(projectKey, <<" ">>) \/ Len(projectKey) < 3
               THEN << <<Lit("project in projectsWhere(\"name ~ '"), Val(projectKey),
                         Lit("' OR key ~ '"), Val(projectKey), Lit("'\")")>> >>
               ELSE << <<Lit("project = \""), Val(projectKey), Lit("\"")>> >>

\* Assignee and reporter filters: an address is matched exactly, any other
\* text by display name or username.
PersonCondition(field, who) ==
    IF Includes(who, <<"@">>)
      THEN <<Lit(field \o " = \""), Val(who), Lit("\"")>>
      ELSE <<Lit(field \o " in membersOf(\"jira-users\") AND " \o field \o " ~ \""),
             Val(who), Lit("\"")>>

AssigneeConditions(criteria) ==
    IF FlagGiven(criteria.assignedToMe) THEN << <<Lit("assignee = currentUser()")>> >>
    ELSE IF TextGiven(criteria.assigneeEmail)
      THEN <<PersonCondition("assignee", criteria.assigneeEmail[1])>>
    ELSE <<>>

\* Status filters
StatusConditions(criteria) ==
    (IF TextGiven(criteria.statusCategory)
       THEN << <<Lit("statusCategory = \""), Val(criteria.statusCategory[1]), Lit("\"")>> >>
       ELSE <<>>)
    \o (IF TextGiven(criteria.status)
          THEN <<SynonymCondition("status", statusMap, criteria.status[1])>>
          ELSE <<>>)

\* Priority filter
PriorityConditions(criteria) ==
    IF TextGiven(criteria.priority)
      THEN <<SynonymCondition("priority", priorityMap, criteria.priority[1])>>
      ELSE <<>>

\* Issue type filter
IssueTypeConditions(criteria) ==
    IF TextGiven(criteria.issueType)
      THEN <<SynonymCondition("issueType", typeMap, criteria.issueType[1])>>
      ELSE <<>>

\* Reporter filter
ReporterConditions(criteria) ==
    IF TextGiven(criteria.reporter)
      THEN <<PersonCondition("reporter", criteria.reporter[1])>>
      ELSE <<>>

\* Labels filter
LabelConditions(criteria) ==
    IF IsDefined(criteria.labels) /\ Len(criteria.labels[1]) > 0
      THEN LET labels == criteria.labels[1]
               labelConditions ==
                   [i \in 1..Len(labels) |-> <<Lit("labels = \""), Val(labels[i]), Lit("\"")>>]
           IN  <<Parenthesized(JoinPieces(labelConditions,
                                          IF FlagGiven(criteria.labelsMatchAll)
                                            THEN " AND " ELSE " OR "))>>
      ELSE <<>>

\* Mutation: the explicit bounds on the update date are emitted next to the
\* relative one.
UpdatedConditions_Both(criteria) ==
    (IF NumberGiven(criteria.recentDays)
       THEN << <<Lit("updated >= -"), Num(criteria.recentDays[1]), Lit("d")>> >>
       ELSE <<>>)
    \o (IF TextGiven(criteria.updatedSince)
          THEN << <<Lit("updated >= \""), Val(criteria.updatedSince[1]), Lit("\"")>> >>
          ELSE <<>>)
    \o (IF TextGiven(criteria.updatedBefore)
          THEN << <<Lit("updated <= \""), Val(criteria.updatedBefore[1]), Lit("\"")>> >>
          ELSE <<>>)

\* Date filters on the update date
UpdatedConditions(criteria) ==
    IF NumberGiven(criteria.recentDays)
      THEN << <<Lit("updated >= -"), Num(criteria.recentDays[1]), Lit("d")>> >>
      ELSE (IF TextGiven(criteria.updatedSince)
              THEN << <<Lit("updated >= \""), Val(criteria.updatedSince[1]), Lit("\"")>> >>
              ELSE <<>>)
           \o (IF TextGiven(criteria.updatedBefore)
                 THEN << <<Lit("updated <= \""), Val(criteria.updatedBefore[1]), Lit("\"")>> >>
                 ELSE <<>>)

\* Date filters on the creation date
CreatedConditions(criteria) ==
    (IF TextGiven(criteria.createdSince)
       THEN << <<Lit("created >= \""), Val(criteria.createdSince[1]), Lit("\"")>> >>
       ELSE <<>>)
    \o (IF TextGiven(criteria.createdBefore)
          THEN << <<Lit("created <= \""), Val(criteria.createdBefore[1]), Lit("\"")>> >>
          ELSE <<>>)

\* `(summary ~ "${term}" OR description ~ "${term}" OR comment ~ "${term}")`
TermCondition(term) ==
    <<Lit("(summary ~ \""), Val(term), Lit("\" OR description ~ \""), Val(term),
      Lit("\" OR comment ~ \""), Val(term), Lit("\")")>>

\* Mutation: the terms are joined with OR.
TextConditions_AnyTerm(criteria) ==
    IF ~TextGiven(criteria.text) THEN <<>>
    ELSE LET searchTerms == splitBlanks(trim(criteria.text[1]))
         IN  IF Len(searchTerms) = 1 THEN <<TermCondition(criteria.text[1])>>
             ELSE <<Parenthesized(JoinPieces([i \in 1..Len(searchTerms) |->
                                                 TermCondition(searchTerms[i])], " OR "))>>

\* Text search: a single term searches for the text as given, several terms
\* for each of them.
TextConditions(criteria) ==
    IF ~TextGiven(criteria.text) THEN <<>>
    ELSE LET searchTerms == splitBlanks(trim(criteria.text[1]))
         IN  IF Len(searchTerms) = 1 THEN <<TermCondition(criteria.text[1])>>
             ELSE <<Parenthesized(JoinPieces([i \in 1..Len(searchTerms) |->
                                                 TermCondition(searchTerms[i])], " AND "))>>

\* Mutation: no default condition.
WithDefault_None(conditions) == conditions

\* if (conditions.length === 0) conditions.push('updated >= -7d')
WithDefault(conditions) ==
    IF Len(conditions) = 0 THEN << <<Lit("updated >= -7d")>> >> ELSE conditions

\* const conditions once every filter has pushed its conditions
searchConditions(criteria) ==
    WithDefault(ProjectConditions(criteria) \o AssigneeConditions(criteria)
                \o StatusConditions(criteria) \o PriorityConditions(criteria)
                \o IssueTypeConditions(criteria) \o ReporterConditions(criteria)
                \o LabelConditions(criteria) \o UpdatedConditions(criteria)
                \o CreatedConditions(criteria) \o TextConditions(criteria))

\* const orderBy = criteria.orderBy || 'updated DESC'
OrderByOf(criteria) ==
    IF TextGiven(criteria.orderBy) THEN Val(criteria.orderBy[1]) ELSE Lit("updated DESC")

\* const maxResults = criteria.maxResults || 50
MaxResultsOf(criteria) ==
    IF NumberGiven(criteria.maxResults) THEN criteria.maxResults[1] ELSE 50

\* const jql = conditions.join(' AND ') + ` ORDER BY ${orderBy}`
BuildJql(conditions, criteria) ==
    JoinPieces(conditions, " AND ") \o <<Lit(" ORDER BY "), OrderByOf(criteria)>>

\* ---- the criteria callers pass

\* Bound on the number of properties a criteria object sets.
MaxCriteria == 3

CriteriaFields ==
    {"projectKey", "assigneeEmail", "assignedToMe", "statusCategory", "status",
     "priority", "labels", "labelsMatchAll", "updatedSince", "updatedBefore",
     "createdSince", "createdBefore", "recentDays", "issueType", "reporter", "text",
     "maxResults", "orderBy"}

\* criteria = {}
EmptyCriteria == [f \in CriteriaFields |-> None]

Setting(field, value) == [field |-> field, value |-> value]

S_urgent == <<"u", "r", "g", "e", "n", "t">>

\* The values a property is set to, one property at a time.
Settings ==
    << Setting("projectKey", <<"A", "B", "C">>), Setting("projectKey", <<"A", "B">>),
      Setting("projectKey", <<"A", " ", "B", "C">>), Setting("projectKey", <<>>),
      Setting("assigneeEmail", <<"a", "@", "b">>), Setting("assigneeEmail", <<"a", "b">>),
      Setting("assignedToMe", TRUE), Setting("assignedToMe", FALSE),
      Setting("statusCategory", <<"D", "o", "n", "e">>),
      Setting("status", <<"D", "o", "n", "e">>), Setting("status", <<"x">>),
      Setting("priority", S_urgent), Setting("priority", <<"U", "r", "g", "E", "N", "T">>),
      Setting("priority", <<"H", "i", "g", "h">>), Setting("priority", <<"x">>),
      Setting("labels", <<>>), Setting("labels", << <<"a">> >>),
      Setting("labels", << <<"a">>, <<"b">> >>),
      Setting("labelsMatchAll", TRUE), Setting("labelsMatchAll", FALSE),
      Setting("updatedSince", <<"1">>), Setting("updatedBefore", <<"2">>),
      Setting("createdSince", <<"1">>), Setting("createdBefore", <<"2">>),
      Setting("recentDays", 0), Setting("recentDays", 3),
      Setting("issueType", <<"B", "u", "g">>), Setting("issueType", <<"x">>),
      Setting("reporter", <<"a", "@", "b">>), Setting("reporter", <<"a", "b">>),
      Setting("text", <<"a">>), Setting("text", <<" ", "a">>), Setting("text", <<" ">>),
      Setting("text", <<"a", " ", "b">>), Setting("text", <<"b", " ", " ", "a", " ", "b", " ">>),
      Setting("maxResults", 0), Setting("maxResults", 10),
      Setting("orderBy", <<"k">>), Setting("orderBy", <<>>) >>

RECURSIVE CriteriaSetting(_)
\* The criteria objects that set at most n properties.
CriteriaSetting(n) ==
    IF n = 0 THEN {EmptyCriteria}
    ELSE LET fewer == CriteriaSetting(n - 1)
         IN  fewer \cup {[c EXCEPT ![Settings[i].field] = Some(Settings[i].value)] :
                            c \in fewer, i \in 1..Len(Settings)}

Criteria == CriteriaSetting(MaxCriteria)

SearchInit ==
    /\ sys = "search"
    /\ DistanceIdle
    /\ ServedIdle
    /\ FindIdle
    /\ FieldCacheIdle
    /\ ProjectCacheIdle
    /\ PageIdle
    /\ MatchIdle
    /\ SprintIdle
    /\ DiffIdle
    /\ q_pc = "ready"
    /\ q_criteria \in Criteria
    /\ q_conditions = <<>>
    /\ q_request = <<>>
    /\ q_outcome = "none"

\* searchTickets(criteria): the conditions, the query, and the search request,
\* which the upstream answers or fails.
SearchTickets ==
    /\ sys = "search" /\ q_pc = "ready"
    /\ LET conditions == searchConditions(q_criteria)
       IN  /\ q_conditions' = conditions
           /\ q_request' = <<[jql |-> BuildJql(conditions, q_criteria),
                              maxResults |-> MaxResultsOf(q_criteria)]>>
    /\ \E ok \in BOOLEAN : q_outcome' = IF ok THEN "ok" ELSE "UpstreamRequestFailed"
    /\ q_pc' = "done"
    /\ UNCHANGED <<sys, glVars, fcVars, fbVars, sv_server, lvVars, pgVars, mVars, srVars, dVars, q_criteria>>

SearchNext == SearchTickets

SpecSearch == SearchInit /\ [][SearchNext]_vars

-----------------------------------------------------------------------------
(* parseDiff: the hunks of a unified diff                                  *)

\* Bound on the number of lines of a diff text.
MaxDiffLines == 4

\* A line of the diff text, by what parseDiff reads of it: how it starts
\* ("@@", "+", "-", " ", or "" for the empty line), and for a line starting
\* with "@@" the groups of the header pattern when the line matches it.
DiffLine(starts, header) == [starts |-> starts, header |-> header]

\* The groups of /^@@ -(\d+)(?:,(\d+))? \+(\d+)(?:,(\d+))? @@(.*)/; the two
\* counts are optional.
HeaderGroups(oldStart, oldCount, newStart, newCount) ==
    [oldStart |-> oldStart, oldCount |-> oldCount,
     newStart |-> newStart, newCount |-> newCount]

HeaderLine(oldStart, oldCount, newStart, newCount) ==
    DiffLine("@@", Some(HeaderGroups(oldStart, oldCount, newStart, newCount)))

\* A line that starts with "@@" and does not match the header pattern.
MalformedHeaderLine == DiffLine("@@", None)

AddedLine == DiffLine("+", None)

RemovedLine == DiffLine("-", None)

ContextLine == DiffLine(" ", None)

EmptyLine == DiffLine("", None)

\* The lines diff texts are made of.
DiffLineCatalog ==
    { HeaderLine(1, Some(2), 1, Some(2)),
      HeaderLine(3, None, 5, None),
      HeaderLine(7, Some(1), 7, Some(2)),
      MalformedHeaderLine, AddedLine, RemovedLine, ContextLine }

\* A diff text: its lines joined by "\n", with or without a final "\n".
Diffs == [lines : SeqsUpTo(DiffLineCatalog, MaxDiffLines), trailingNewline : BOOLEAN]

\* diff.split("\n"): the text of no lines is the empty string, which splits
\* into one empty line; a final "\n" leaves an empty line after it.
SplitLines(diff) ==
    (IF Len(diff.lines) = 0 THEN <<EmptyLine>> ELSE diff.lines)
    \o (IF diff.trailingNewline THEN <<EmptyLine>> ELSE <<>>)

\* parseInt(headerMatch[2] || "1", 10)
CountOf(group) == IF IsDefined(group) THEN group[1] ELSE 1

\* currentHunk = { header, oldStartLine, oldLineCount, newStartLine, ... }
NewHunk(line) ==
    [header |-> line,
     oldStartLine |-> line.header[1].oldStart,
     oldLineCount |-> CountOf(line.header[1].oldCount),
     newStartLine |-> line.header[1].newStart,
     newLineCount |-> CountOf(line.header[1].newCount),
     lines |-> <<>>,
     isCollapsed |-> FALSE]

\* currentHunk.oldStartLine + currentHunk.lines.filter(l => l.type !== "add").length
OldLineNumber(hunk) ==
    hunk.oldStartLine + Len(SelectSeq(hunk.lines, LAMBDA l : l.type # "add"))

\* Mutation: every line of the hunk so far advances the new-line number.
NewLineNumber_EveryLine(hunk) == hunk.newStartLine + Len(hunk.lines)

\* currentHunk.newStartLine + currentHunk.lines.filter(l => l.type !== "remove").length
NewLineNumber(hunk) ==
    hunk.newStartLine + Len(SelectSeq(hunk.lines, LAMBDA l : l.type # "remove"))

\* The entry pushed to currentHunk.lines for a content line.
HunkLine(hunk, line) ==
    IF line.starts = "+"
      THEN [type |-> "add", oldLine |-> None, newLine |-> Some(NewLineNumber(hunk)),
            content |-> line]
    ELSE IF line.starts = "-"
      THEN [type |-> "remove", oldLine |-> Some(OldLineNumber(hunk)), newLine |-> None,
            content |-> line]
    ELSE [type |-> "context", oldLine |-> Some(OldLineNumber(hunk)),
          newLine |-> Some(NewLineNumber(hunk)), content |-> line]

\* Mutation: the hunk in progress is dropped when the next one opens.
PushCurrent_Dropped(hunks, currentHunk) == hunks

\* hunks.push(currentHunk) when there is a current hunk
PushCurrent(hunks, currentHunk) ==
    IF IsDefined(currentHunk) THEN Append(hunks, currentHunk[1]) ELSE hunks

\* The locals of parseDiff on entry to the for loop.
DiffInit ==
    /\ sys = "diff"
    /\ DistanceIdle
    /\ ServedIdle
    /\ FindIdle
    /\ FieldCacheIdle
    /\ ProjectCacheIdle
    /\ PageIdle
    /\ MatchIdle
    /\ SprintIdle
    /\ SearchIdle
    /\ d_pc = "loop"
    /\ d_diff \in Diffs
    /\ d_pos = 1
    /\ d_currentHunk = None
    /\ d_hunks = <<>>

\* The line the for loop is at.
CurrentLine == SplitLines(d_diff)[d_pos]

InLoop == sys = "diff" /\ d_pc = "loop" /\ d_pos <= Len(SplitLines(d_diff))

\* An iteration on a line that starts with "@@": a line matching the header
\* pattern closes the current hunk and opens the next; any other is dropped.
ParseHunkHeader ==
    /\ InLoop /\ CurrentLine.starts = "@@"
    /\ IF IsDefined(CurrentLine.header)
         THEN /\ d_hunks' = PushCurrent(d_hunks, d_currentHunk)
              /\ d_currentHunk' = Some(NewHunk(CurrentLine))
         ELSE UNCHANGED <<d_hunks, d_currentHunk>>
    /\ d_pos' = d_pos + 1
    /\ UNCHANGED <<sys, glVars, fcVars, fbVars, sv_server, lvVars, pgVars, mVars, srVars, qVars, d_pc, d_diff>>

\* An iteration on any other line inside a hunk: the line is classified,
\* numbered and pushed.
ParseHunkContent ==
    /\ InLoop /\ CurrentLine.starts # "@@" /\ IsDefined(d_currentHunk)
    /\ d_currentHunk' =
          Some([d_currentHunk[1] EXCEPT
                   !.lines = Append(@, HunkLine(d_currentHunk[1], CurrentLine))])
    /\ d_pos' = d_pos + 1
    /\ UNCHANGED <<sys, glVars, fcVars, fbVars, sv_server, lvVars, pgVars, mVars, srVars, qVars, d_pc, d_diff, d_hunks>>

\* An iteration on a line before the first hunk.
SkipLine ==
    /\ InLoop /\ CurrentLine.starts # "@@" /\ ~IsDefined(d_currentHunk)
    /\ d_pos' = d_pos + 1
    /\ UNCHANGED <<sys, glVars, fcVars, fbVars, sv_server, lvVars, pgVars, mVars, srVars, qVars, d_pc, d_diff, d_currentHunk, d_hunks>>

\* After the loop: the current hunk is pushed and hunks is returned.
ReturnHunks ==
    /\ sys = "diff" /\ d_pc = "loop" /\ d_pos > Len(SplitLines(d_diff))
    /\ d_hunks' = PushCurrent(d_hunks, d_currentHunk)
    /\ d_pc' = "done"
    /\ UNCHANGED <<sys, glVars, fcVars, fbVars, sv_server, lvVars, pgVars, mVars, srVars, qVars, d_diff, d_pos, d_currentHunk>>

DiffNext == ParseHunkHeader \/ ParseHunkContent \/ SkipLine \/ ReturnHunks

SpecDiff == DiffInit /\ [][DiffNext]_vars

-----------------------------------------------------------------------------
(* levenshteinDistance as an operation                                     *)

\* Bound on the length of the strings compared.
MaxWordLen == 3

S_kitten == <<"k", "i", "t", "t", "e", "n">>

S_sitting == <<"s", "i", "t", "t", "i", "n", "g">>

S_hello == <<"h", "e", "l", "l", "o">>

S_hallo == <<"h", "a", "l", "l", "o">>

\* The strings compared: every string over two letters up to the bound, and
\* the words of the unit tests.
Words == SeqsUpTo({"a", "b"}, MaxWordLen) \cup {S_kitten, S_sitting, S_hello, S_hallo}

DistanceInit ==
    /\ sys = "distance"
    /\ ServedIdle
    /\ FindIdle
    /\ FieldCacheIdle
    /\ ProjectCacheIdle
    /\ PageIdle
    /\ MatchIdle
    /\ SprintIdle
    /\ SearchIdle
    /\ DiffIdle
    /\ lv_pc = "ready"
    /\ lv_a \in Words
    /\ lv_b \in Words
    /\ lv_distance = 0

\* levenshteinDistance(a, b)
LevenshteinDistance ==
    /\ sys = "distance" /\ lv_pc = "ready"
    /\ lv_distance' = levenshteinDistance(lv_a, lv_b)
    /\ lv_pc' = "done"
    /\ UNCHANGED <<sys, glVars, fcVars, fbVars, sv_server, pgVars, mVars, srVars, qVars, dVars, lv_a, lv_b>>

DistanceNext == LevenshteinDistance

SpecDistance == DistanceInit /\ [][DistanceNext]_vars

-----------------------------------------------------------------------------
(* findBoards                                                              *)

\* const maxResults = criteria.maxResults || 50
DefaultMaxResults == 50

\* A board as the agile API lists it; name and location may be missing.
ListedBoard(id, name, type, projectKey) ==
    [id |-> id, name |-> name, type |-> type, projectKey |-> projectKey]

S_a == <<"a">>

S_B == <<"B">>

S_aX == <<"a", "X">>

\* The boards an upstream may hold, in the order it lists them.
ListedBoards ==
    << ListedBoard(1, Some(S_AB), "scrum", Some(S_AB)),
       ListedBoard(2, Some(S_aX), "kanban", Some(S_X)),
       ListedBoard(3, None, "scrum", None) >>

\* The elements of xs at the positions of keep, in order.
RECURSIVE Pick(_, _)
Pick(xs, keep) ==
    IF Len(xs) = 0 THEN <<>>
    ELSE (IF 1 \in keep THEN <<Head(xs)>> ELSE <<>>)
         \o Pick(Tail(xs), {i - 1 : i \in keep \ {1}})

\* An upstream: the boards it holds, whether its board list honours the type
\* and name query parameters, and whether it answers requests at all.
FindServers ==
    {[boards |-> Pick(ListedBoards, keep), filters |-> f, up |-> u] :
        keep \in SUBSET (1..Len(ListedBoards)), f \in BOOLEAN, u \in BOOLEAN}

\* The criteria a caller may pass.
FindCriteria ==
    [projectKey : {None, Some(<<>>), Some(S_AB), Some(S_X)},
     boardName  : {None, Some(<<>>), Some(S_a), Some(S_B)},
     boardId    : {None, Some(0), Some(1), Some(9)},
     type       : {None, Some("scrum"), Some("kanban")},
     maxResults : {None, Some(0), Some(1)}]

\* JavaScript truthiness of an optional number / an optional string.
TruthyNumber(o) == IsDefined(o) /\ o[1] # 0

TruthyString(o) == IsDefined(o) /\ Len(o[1]) > 0

\* board.name?.toLowerCase().includes(needle.toLowerCase())
NameIncludes(board, needle) ==
    IsDefined(board.name)
    /\ Includes(toLowerCase(board.name[1]), toLowerCase(needle))

\* The filter on criteria.projectKey: the board's location is the project, or
\* the board's name contains the key.
ProjectKeyFilter(criteria, board) ==
    \/ board.projectKey = criteria.projectKey
    \/ NameIncludes(board, criteria.projectKey[1])

\* The filter on criteria.boardName.
BoardNameFilter(criteria, board) == NameIncludes(board, criteria.boardName[1])

\* The manual filters of findBoards on the listed boards.
ManualFilters(criteria, boards) ==
    LET ByProject(b) == ProjectKeyFilter(criteria, b)
        ByName(b) == BoardNameFilter(criteria, b)
        projected == IF TruthyString(criteria.projectKey)
                     THEN SelectSeq(boards, ByProject) ELSE boards
    IN  IF TruthyString(criteria.boardName)
        THEN SelectSeq(projected, ByName) ELSE projected

\* if (boards.length > maxResults) boards = boards.slice(0, maxResults)
LimitResults(criteria, boards) ==
    LET maxResults == IF TruthyNumber(criteria.maxResults)
                      THEN criteria.maxResults[1] ELSE DefaultMaxResults
    IN  IF Len(boards) > maxResults THEN SubSeq(boards, 1, maxResults)
        ELSE boards

\* The board list of the upstream for the query parameters type and name.
ListBoards(server, type, name) ==
    LET Matches(b) ==
            /\ IsDefined(type) => b.type = type[1]
            /\ IsDefined(name) => NameIncludes(b, name[1])
    IN  IF server.filters THEN SelectSeq(server.boards, Matches)
        ELSE server.boards

\* GET /board/{boardId}: the board of that id, or nothing (the request fails).
BoardOfId(server, boardId) ==
    LET hits == {i \in 1..Len(server.boards) : server.boards[i].id = boardId}
    IN  IF ~server.up \/ hits = {} THEN None
        ELSE Some(server.boards[CHOOSE i \in hits : TRUE])

BoardRequest(boardId) ==
    [endpoint |-> "board", boardId |-> Some(boardId), type |-> None,
     name |-> None]

BoardListRequest(type, name) ==
    [endpoint |-> "boards", boardId |-> None, type |-> type, name |-> name]

Found(boards) == [kind |-> "ok", boards |-> boards]

FindFailed == [kind |-> "error", boards |-> <<>>]

\* Whether the call takes the direct lookup: if (criteria.boardId)
DirectLookup(criteria) == TruthyNumber(criteria.boardId)

\* The value of the direct-lookup branch, a mutation: the looked-up board
\* goes through the manual filters.
LookupResult_Filtered(criteria, looked) ==
    IF IsDefined(looked) THEN Found(ManualFilters(criteria, <<looked[1]>>))
    ELSE Found(<<>>)

\* The value of the direct-lookup branch: [board], or [] when getBoardById
\* threw.
LookupResult(criteria, looked) ==
    IF IsDefined(looked) THEN Found(<<looked[1]>>) ELSE Found(<<>>)

FindInit ==
    /\ sys = "find"
    /\ PageIdle
    /\ MatchIdle
    /\ SprintIdle
    /\ SearchIdle
    /\ DiffIdle
    /\ DistanceIdle
    /\ ServedIdle
    /\ FieldCacheIdle
    /\ ProjectCacheIdle
    /\ fb_pc = "call"
    /\ fb_criteria \in FindCriteria
    /\ fb_server \in FindServers
    /\ fb_requests = <<>>
    /\ fb_outcome = <<>>

\* findBoards with a truthy boardId: getBoardById, which answers or throws.
FindBoardsById ==
    /\ sys = "find" /\ fb_pc = "call"
    /\ DirectLookup(fb_criteria)
    /\ fb_outcome' = LookupResult(fb_criteria,
                                  BoardOfId(fb_server, fb_criteria.boardId[1]))
    /\ fb_requests' = Append(fb_requests, BoardRequest(fb_criteria.boardId[1]))
    /\ fb_pc' = "done"
    /\ UNCHANGED <<sys, glVars, fcVars, pgVars, mVars, srVars, qVars, dVars, lvVars, sv_server,
                   fb_criteria, fb_server>>

\* findBoards otherwise: getAllBoards with the type and name options, the
\* manual filters and the limit; a failure of the listing is thrown on.
FindBoardsByList ==
    /\ sys = "find" /\ fb_pc = "call"
    /\ ~DirectLookup(fb_criteria)
    /\ fb_outcome' =
              IF ~fb_server.up THEN FindFailed
              ELSE Found(LimitResults(fb_criteria,
                       ManualFilters(fb_criteria,
                           ListBoards(fb_server, fb_criteria.type,
                                      fb_criteria.boardName))))
    /\ fb_requests' = Append(fb_requests,
                             BoardListRequest(fb_criteria.type,
                                              fb_criteria.boardName))
    /\ fb_pc' = "done"
    /\ UNCHANGED <<sys, glVars, fcVars, pgVars, mVars, srVars, qVars, dVars, lvVars, sv_server,
                   fb_criteria, fb_server>>

FindNext == FindBoardsById \/ FindBoardsByList

SpecFind == FindInit /\ [][FindNext]_vars

-----------------------------------------------------------------------------
(* The field-catalog cache of a JiraService instance                       *)

\* Bound on the number of tool calls made on the instance.
MaxCalls == 3

\* The tool calls that may be in progress at the same time.
CallSlots == {1, 2}

S_StoryPoints ==
    <<"S", "t", "o", "r", "y", " ", "P", "o", "i", "n", "t", "s">>

S_storypoints == <<"s", "t", "o", "r", "y", "p", "o", "i", "n", "t", "s">>

\* The field catalogs the upstream may answer with.
Catalogs ==
    { <<>>,
      <<Field("priority", S_priority)>>,
      <<Field("priority", S_priority),
        Field("customfield_10016", S_StoryPoints)>> }

\* The methods of the instance that need the catalog.
CatalogCallers ==
    {"getAllFields", "getFieldId", "getPriorityFieldId", "getSprintFieldId",
     "getStoryPointsFieldId", "getTicketDetails"}

\* A tool call: the method, where it stands, the catalog getAllFields gave it
\* and whether it issued an upstream request for it.
Call(op, pc, saw, fetched) ==
    [op |-> op, pc |-> pc, saw |-> saw, fetched |-> fetched]

NoCall == Call("", "idle", None, FALSE)

\* if (this.allFieldsCache), a mutation: an empty catalog counts as unset.
CacheHit_NonEmpty(cache) == IsDefined(cache) /\ Len(cache[1]) > 0

\* if (this.allFieldsCache): an array, empty or not, is truthy.
CacheHit(cache) == IsDefined(cache)

\* this.allFieldsCache = fields, a mutation: the fetched fields are added to
\* what the cache holds.
StoreFetched_Added(cache, fields) ==
    IF IsDefined(cache) THEN Some(cache[1] \o fields) ELSE Some(fields)

\* this.allFieldsCache = fields
StoreFetched(cache, fields) == Some(fields)

\* if (this.storyPointsFieldId) return this.storyPointsFieldId
StoryPointsHit(op, storyPointsFieldId) ==
    op = "getStoryPointsFieldId" /\ storyPointsFieldId # ""

\* fields.find(name normalised === 'storypoints'): the id, "" when there is
\* no such field or it has no id.
StoryPointsIdIn(fields) ==
    LET storyPointsField ==
            FindIndex([i \in 1..Len(fields) |->
                          StripSeparators(fields[i].name) = S_storypoints])
    IN  IF storyPointsField = 0 THEN "" ELSE fields[storyPointsField].id

\* The caller of getAllFields goes on with the catalog: getStoryPointsFieldId
\* throws when the catalog has no story points field.
CallPcAfter(op, fields) ==
    IF op = "getStoryPointsFieldId" /\ StoryPointsIdIn(fields) = ""
    THEN "thrown" ELSE "returned"

\* this.storyPointsFieldId after the caller went on with the catalog.
StoryPointsAfter(op, fields, storyPointsFieldId) ==
    IF op = "getStoryPointsFieldId" /\ StoryPointsIdIn(fields) # ""
    THEN StoryPointsIdIn(fields) ELSE storyPointsFieldId

FieldCacheInit ==
    /\ sys = "cache"
    /\ PageIdle
    /\ MatchIdle
    /\ SprintIdle
    /\ SearchIdle
    /\ DiffIdle
    /\ DistanceIdle
    /\ ServedIdle
    /\ FindIdle
    /\ ProjectCacheIdle
    /\ fc_allFieldsCache = None
    /\ fc_storyPointsFieldId = ""
    /\ fc_upstream \in Catalogs
    /\ fc_calls = [c \in CallSlots |-> NoCall]
    /\ fc_requests = <<>>
    /\ fc_fetched = <<>>
    /\ fc_started = 0

\* A tool call begins and runs to its first upstream request: answered from
\* the cached story points id or from the cached catalog, it finishes at
\* once; otherwise getAllFields issues client.issueFields.getFields().
CallBegins ==
    /\ sys = "cache"
    /\ fc_started < MaxCalls
    /\ \E c \in CallSlots, op \in CatalogCallers :
          /\ fc_calls[c].pc # "awaiting"
          /\ IF StoryPointsHit(op, fc_storyPointsFieldId)
             THEN /\ fc_calls' = [fc_calls EXCEPT
                                     ![c] = Call(op, "returned", None, FALSE)]
                  /\ UNCHANGED <<fc_storyPointsFieldId, fc_requests>>
             ELSE IF CacheHit(fc_allFieldsCache)
             THEN /\ fc_calls' =
                       [fc_calls EXCEPT
                           ![c] = Call(op,
                                       CallPcAfter(op, fc_allFieldsCache[1]),
                                       fc_allFieldsCache, FALSE)]
                  /\ fc_storyPointsFieldId' =
                       StoryPointsAfter(op, fc_allFieldsCache[1],
                                        fc_storyPointsFieldId)
                  /\ UNCHANGED fc_requests
             ELSE /\ fc_calls' = [fc_calls EXCEPT
                                     ![c] = Call(op, "awaiting", None, TRUE)]
                  /\ fc_requests' = Append(fc_requests, c)
                  /\ UNCHANGED fc_storyPointsFieldId
    /\ fc_started' = fc_started + 1
    /\ UNCHANGED <<sys, glVars, pgVars, mVars, srVars, qVars, dVars, lvVars, sv_server,
                   fbVars, fc_allFieldsCache, fc_upstream, fc_fetched>>

\* The upstream answers the request of a call: getAllFields stores the
\* fields, returns this.allFieldsCache, and the caller goes on.
FieldsFetched ==
    /\ sys = "cache"
    /\ \E c \in CallSlots :
          /\ fc_calls[c].pc = "awaiting"
          /\ fc_allFieldsCache' = StoreFetched(fc_allFieldsCache, fc_upstream)
          /\ fc_calls' =
                [fc_calls EXCEPT
                    ![c] = Call(fc_calls[c].op,
                                CallPcAfter(fc_calls[c].op, fc_allFieldsCache'[1]),
                                fc_allFieldsCache', TRUE)]
          /\ fc_storyPointsFieldId' =
                StoryPointsAfter(fc_calls[c].op, fc_allFieldsCache'[1],
                                 fc_storyPointsFieldId)
    /\ fc_fetched' = Append(fc_fetched, fc_upstream)
    /\ UNCHANGED <<sys, glVars, pgVars, mVars, srVars, qVars, dVars, lvVars, sv_server,
                   fbVars, fc_upstream, fc_requests, fc_started>>

\* The request of a call fails: getAllFields throws, nothing is stored.
FieldsRequestFails ==
    /\ sys = "cache"
    /\ \E c \in CallSlots :
          /\ fc_calls[c].pc = "awaiting"
          /\ fc_calls' = [fc_calls EXCEPT
                             ![c] = Call(fc_calls[c].op, "thrown", None, TRUE)]
    /\ UNCHANGED <<sys, glVars, pgVars, mVars, srVars, qVars, dVars, lvVars, sv_server,
                   fbVars, fc_allFieldsCache, fc_storyPointsFieldId,
                   fc_upstream, fc_requests, fc_fetched, fc_started>>

\* An administrator changes the fields of the Jira instance.
UpstreamCatalogChanges ==
    /\ sys = "cache"
    /\ fc_upstream' \in Catalogs \ {fc_upstream}
    /\ UNCHANGED <<sys, glVars, pgVars, mVars, srVars, qVars, dVars, lvVars, sv_server,
                   fbVars, fc_allFieldsCache, fc_storyPointsFieldId, fc_calls,
                   fc_requests, fc_fetched, fc_started>>

FieldCacheNext ==
    CallBegins \/ FieldsFetched \/ FieldsRequestFails \/ UpstreamCatalogChanges

SpecFieldCache == FieldCacheInit /\ [][FieldCacheNext]_vars

-----------------------------------------------------------------------------
(* The project cache of a GitLabService instance                           *)

\* Bound on the number of calls of listProjects.
MaxListCalls == 3

\* Bound on the number of times the clock advances.
MaxTicks == 4

\* private readonly CACHE_DURATION_MS = 24 * 60 * 60 * 1000
CACHE_DURATION_MS == 24 * 60 * 60 * 1000

\* The steps by which the clock advances: a millisecond, a day less a
\* millisecond.
ClockSteps == {1, CACHE_DURATION_MS - 1}

\* A project as the upstream answers it; owner stands for the properties
\* listProjects does not copy.
UpstreamProject(id, path, owner) ==
    [id |-> id, path_with_namespace |-> path, owner |-> owner]

\* The project lists the upstream may answer with.
UpstreamProjects ==
    { <<>>,
      <<UpstreamProject(1, "g/a", "u1")>>,
      <<UpstreamProject(2, "g/b", "u2"), UpstreamProject(1, "g/a", "u1")>> }

\* projects.map(project => ({id, ..., path_with_namespace, ...}))
simplifiedProjects(projects) ==
    [i \in 1..Len(projects) |->
        [id |-> projects[i].id,
         path_with_namespace |-> projects[i].path_with_namespace]]

\* The test of listProjects on the cache, a mutation: an entry stored exactly
\* 24 hours ago still counts.
CacheFresh_Inclusive(cache, now) ==
    IsDefined(cache) /\ now - cache[1].timestamp <= CACHE_DURATION_MS

\* this.projectCache && Date.now() - this.projectCache.timestamp <
\* this.CACHE_DURATION_MS
CacheFresh(cache, now) ==
    IsDefined(cache) /\ now - cache[1].timestamp < CACHE_DURATION_MS

\* this.projectCache = { data: simplifiedProjects, timestamp: Date.now() }
CacheEntry(data, now) == [data |-> data, timestamp |-> now]

Listed(kind, data) == [kind |-> kind, data |-> data]

ProjectCacheInit ==
    /\ sys = "projects"
    /\ PageIdle
    /\ MatchIdle
    /\ SprintIdle
    /\ SearchIdle
    /\ DiffIdle
    /\ DistanceIdle
    /\ ServedIdle
    /\ FindIdle
    /\ FieldCacheIdle
    /\ gl_projectCache = None
    /\ gl_now = 0
    /\ gl_upstream \in UpstreamProjects
    /\ gl_pc = "idle"
    /\ gl_last = Listed("none", <<>>)
    /\ gl_requests = 0
    /\ gl_calls = 0
    /\ gl_ticks = 0

\* listProjects up to its upstream request: a fresh cache entry is returned
\* at once, otherwise the projects are requested.
ListProjectsBegins ==
    /\ sys = "projects" /\ gl_pc = "idle"
    /\ gl_calls < MaxListCalls
    /\ gl_calls' = gl_calls + 1
    /\ IF CacheFresh(gl_projectCache, gl_now)
       THEN /\ gl_last' = Listed("cached", gl_projectCache[1].data)
            /\ UNCHANGED <<gl_pc, gl_requests>>
       ELSE /\ gl_pc' = "awaiting"
            /\ gl_requests' = gl_requests + 1
            /\ gl_last' = Listed("none", <<>>)
    /\ UNCHANGED <<sys, pgVars, mVars, srVars, qVars, dVars, lvVars, sv_server,
                   fbVars, fcVars, gl_projectCache, gl_now, gl_upstream,
                   gl_ticks>>

\* The upstream answers: the simplified projects are stored with the time of
\* the store and returned.
ProjectsFetched ==
    /\ sys = "projects" /\ gl_pc = "awaiting"
    /\ gl_projectCache' =
           Some(CacheEntry(simplifiedProjects(gl_upstream), gl_now))
    /\ gl_last' = Listed("fetched", simplifiedProjects(gl_upstream))
    /\ gl_pc' = "idle"
    /\ UNCHANGED <<sys, pgVars, mVars, srVars, qVars, dVars, lvVars, sv_server,
                   fbVars, fcVars, gl_now, gl_upstream, gl_requests, gl_calls,
                   gl_ticks>>

\* The request fails: callGitLabApi throws and listProjects with it.
ProjectsRequestFails ==
    /\ sys = "projects" /\ gl_pc = "awaiting"
    /\ gl_last' = Listed("error", <<>>)
    /\ gl_pc' = "idle"
    /\ UNCHANGED <<sys, pgVars, mVars, srVars, qVars, dVars, lvVars, sv_server,
                   fbVars, fcVars, gl_projectCache, gl_now, gl_upstream,
                   gl_requests, gl_calls, gl_ticks>>

\* Time passes, between calls or while a request is in flight.
ClockAdvances ==
    /\ sys = "projects"
    /\ gl_ticks < MaxTicks
    /\ gl_ticks' = gl_ticks + 1
    /\ \E step \in ClockSteps : gl_now' = gl_now + step
    /\ UNCHANGED <<sys, pgVars, mVars, srVars, qVars, dVars, lvVars, sv_server,
                   fbVars, fcVars, gl_projectCache, gl_upstream, gl_pc, gl_last,
                   gl_requests, gl_calls>>

\* The projects of the user change upstream.
UpstreamProjectsChange ==
    /\ sys = "projects"
    /\ gl_upstream' \in UpstreamProjects \ {gl_upstream}
    /\ UNCHANGED <<sys, pgVars, mVars, srVars, qVars, dVars, lvVars, sv_server,
                   fbVars, fcVars, gl_projectCache, gl_now, gl_pc, gl_last,
                   gl_requests, gl_calls, gl_ticks>>

ProjectCacheNext ==
    \/ ListProjectsBegins \/ ProjectsFetched \/ ProjectsRequestFails
    \/ ClockAdvances \/ UpstreamProjectsChange

SpecProjectCache == ProjectCacheInit /\ [][ProjectCacheNext]_vars

-----------------------------------------------------------------------------
(* Claims about the pagination loop                                        *)

\* The number of items received in the first i pages.
CountAfter(i) == Len(Flatten([j \in 1..i |-> ValuesOf(pg_responses[j])]))

\* Page i does not signal the last page and leaves the count below its total.
ContinuingPage(i) ==
    /\ ~IsLastOf(pg_responses[i])
    /\ CountAfter(i) < TotalOf(pg_responses[i])

\* The server of claim C1: every page but the latest is a continuing page, and
\* the latest is a continuing page or signals isLast = true.
C1Server ==
    /\ \A i \in 1..(Len(pg_responses) - 1) : ContinuingPage(i)
    /\ Len(pg_responses) > 0 =>
          \/ IsLastOf(pg_responses[Len(pg_responses)])
          \/ ContinuingPage(Len(pg_responses))

\* C1: against a server that answers isLast=false on pages 1..k-1 (each leaving
\* the count below the reported total) and isLast=true on page k, the loop issues
\* exactly k requests with startAt = 0, 50, ..., 50*(k-1) and maxResults = 50,
\* stops at page k and no earlier, and returns the pages concatenated in request
\* order with isLast = true.
C1_ExactlyKPagesConcatenated ==
    (sys = "page" /\ pg_pc \in {"loop", "done"} /\ ~pg_watch.beyond /\ C1Server) =>
        /\ Len(pg_requests) = Len(pg_responses)
        /\ \A i \in 1..Len(pg_requests) :
              pg_requests[i] = [endpoint |-> pg_kind, startAt |-> 50 * (i - 1),
                                maxResults |-> 50]
        /\ (pg_pc = "done") <=>
              (Len(pg_responses) > 0 /\ IsLastOf(pg_responses[Len(pg_responses)]))
        /\ pg_pc = "done" =>
              /\ IsDefined(pg_result)
              /\ pg_result[1].values =
                    Flatten([j \in 1..Len(pg_responses) |-> ValuesOf(pg_responses[j])])
              /\ pg_result[1].isLast = TRUE

\* C1 witness: a run of three pages, the third signalling isLast, has returned.
C1_Witness ==
    /\ sys = "page" /\ pg_pc = "done" /\ ~pg_watch.beyond /\ C1Server
    /\ Len(pg_responses) = 3
    /\ IsLastOf(pg_responses[3])
    /\ Len(pg_all) >= 3

\* Every page so far reports the same total and none signals isLast = true.
FixedTotalNeverLast == pg_watch.fixed /\ pg_pc # "failed"

\* C2: the loop always terminates when the server never signals isLast=true but
\* reports a fixed total: it eventually stops (or the server leaves the premise).
C2_AlwaysTerminates == <>(pg_pc = "done" \/ ~FixedTotalNeverLast)

-----------------------------------------------------------------------------
(* Claims about the pagination loop against a serving server               *)

\* The loop returned against the server of this state.
ServedDone == sys = "served" /\ pg_pc = "done"

\* C23: against a server that holds a fixed list and answers a request at an
\* offset with the slice of at most cap items from it, the pagination returns
\* each item of the list exactly once, in server order.
C23_NothingMissedOrRepeated ==
    ServedDone => pg_result[1].values = sv_server.items

-----------------------------------------------------------------------------
(* Claims about the matchers                                               *)

\* The least element of a non-empty set of numbers.
LeastOf(S) == CHOOSE x \in S : \A y \in S : x <= y

NormInput == trim(toLowerCase(m_input))

\* findBestMatchingOption was reached with a non-empty list of allowed values.
OptionMatchingRan ==
    /\ sys = "match" /\ m_site = "option" /\ m_pc = "done"
    /\ Len(m_cands) > 0
    /\ m_result.kind \in {"ok", "EditFailed", "NoCloseMatch"}

\* findBestMatchingOption returned an option (m_result.index is its position).
OptionReturned == m_result.kind \in {"ok", "EditFailed"}

\* The distance of allowed value i: lowercased trimmed input against the
\* lowercased label (value, or name when there is no value).
OptionDist(i) ==
    levenshteinDistance(NormInput,
        toLowerCase(IF IsDefined(m_cands[i].value) /\ m_cands[i].value[1] # <<>>
                      THEN m_cands[i].value[1]
                      ELSE IF IsDefined(m_cands[i].name) THEN m_cands[i].name[1]
                      ELSE <<>>))

OptionMinDist == LeastOf({OptionDist(i) : i \in 1..Len(m_cands)})

\* Allowed value i has a value or name equal to the trimmed input, case aside.
OptionEqualsInput(i) ==
    \/ IsDefined(m_cands[i].value) /\ toLowerCase(m_cands[i].value[1]) = NormInput
    \/ IsDefined(m_cands[i].name) /\ toLowerCase(m_cands[i].name[1]) = NormInput

\* Allowed value i has a value or name that, trimmed, equals the trimmed input,
\* case aside.
OptionEqualsInputTrimmed(i) ==
    \/ IsDefined(m_cands[i].value)
          /\ trim(toLowerCase(m_cands[i].value[1])) = NormInput
    \/ IsDefined(m_cands[i].name)
          /\ trim(toLowerCase(m_cands[i].name[1])) = NormInput

OptionWithinThreshold == OptionMinDist <= Max(Min(Len(NormInput), 4), 2)

\* C3 as stated: an option is returned iff some option's value or name equals
\* the trimmed input case-insensitively or the minimum distance d is at most
\* max(min(len, 4), 2); it is an exact match when one exists, else one attaining d.
C3_ReturnsIffEqualOrClose ==
    OptionMatchingRan =>
        /\ OptionReturned <=>
              ((\E i \in 1..Len(m_cands) : OptionEqualsInput(i)) \/ OptionWithinThreshold)
        /\ OptionReturned =>
              IF \E i \in 1..Len(m_cands) : OptionEqualsInput(i)
                THEN OptionEqualsInput(m_result.index)
                ELSE OptionDist(m_result.index) = OptionMinDist

\* C3 amended: an option is returned iff some option's value or name, trimmed,
\* equals the trimmed input case-insensitively, or the minimum distance d is at
\* most max(min(len, 4), 2); it is the first such exact match when one exists,
\* and otherwise the first option attaining d.
C3_ReturnsIffTrimmedEqualOrClose ==
    OptionMatchingRan =>
        /\ OptionReturned <=>
              ((\E i \in 1..Len(m_cands) : OptionEqualsInputTrimmed(i))
                  \/ OptionWithinThreshold)
        /\ OptionReturned =>
              IF \E i \in 1..Len(m_cands) : OptionEqualsInputTrimmed(i)
                THEN m_result.index = LeastOf({i \in 1..Len(m_cands) : OptionEqualsInputTrimmed(i)})
                ELSE m_result.index =
                        LeastOf({i \in 1..Len(m_cands) : OptionDist(i) = OptionMinDist})

\* C3 witness: with Low, Medium, High, Critical the input "hi" resolved to High.
C3_Witness ==
    /\ OptionMatchingRan /\ OptionReturned
    /\ m_input = S_hi /\ m_cands = PriorityOptions
    /\ m_result.index = 3

\* Resolution rejects the input: no exact match and the least distance is
\* over the threshold.
OptionRejected ==
    /\ ~\E i \in 1..Len(m_cands) : OptionEqualsInputTrimmed(i)
    /\ ~OptionWithinThreshold

S_LowMediumHighCritical ==
    <<"L", "o", "w", ",", " ", "M", "e", "d", "i", "u", "m", ",", " ",
      "H", "i", "g", "h", ",", " ", "C", "r", "i", "t", "i", "c", "a", "l">>

\* C4: a rejected input fails with NoCloseMatch quoting the literal input and
\* listing every option label, none omitted, in catalog order, comma-separated;
\* for xyz123 the list reads "Low, Medium, High, Critical".
C4_NoCloseMatchListsAllInOrder ==
    (OptionMatchingRan /\ OptionRejected) =>
        /\ m_result.kind = "NoCloseMatch"
        /\ m_result.quoted = m_input
        /\ m_result.listed =
              JoinWith([i \in 1..Len(m_cands) |->
                           IF IsDefined(m_cands[i].value) /\ m_cands[i].value[1] # <<>>
                             THEN m_cands[i].value[1]
                             ELSE IF IsDefined(m_cands[i].name) THEN m_cands[i].name[1]
                             ELSE <<>>], <<",", " ">>)
        /\ (m_cands = PriorityOptions => m_result.listed = S_LowMediumHighCritical)

\* C4 witness: xyz123 was rejected against Low, Medium, High, Critical.
C4_Witness ==
    /\ OptionMatchingRan /\ OptionRejected
    /\ m_input = S_xyz123 /\ m_cands = PriorityOptions
    /\ m_result.kind = "NoCloseMatch"

\* C5: with Low, Medium, High, Critical the input "crit" selects Critical.
C5_CritSelectsCritical ==
    (OptionMatchingRan /\ m_input = S_crit /\ m_cands = PriorityOptions) =>
        /\ OptionReturned
        /\ m_result.index = 4
        /\ m_sent = <<[op |-> "editIssue", target |-> "f_prio", value |-> 4]>>

\* The handler fetched the transitions of the ticket.
TransitionRan ==
    /\ sys = "match" /\ m_site = "transition" /\ m_pc = "done"
    /\ m_result.kind # "UpstreamRequestFailed"

\* The transitions with an id and a name, in the order fetched.
Available == SelectSeq(m_cands, LAMBDA t : t.id # "" /\ t.name # <<>>)

TransitionDist(i) == levenshteinDistance(m_input, Available[i].name)

TransitionMinDist == LeastOf({TransitionDist(i) : i \in 1..Len(Available)})

\* No available transition lies within the strict threshold of the status name.
TransitionTooFar ==
    /\ Len(Available) > 0
    /\ TransitionMinDist > Max(Min(Len(m_input), 4), 2)

\* C6 as stated: a status name farther than max(min(len, 4), 2) from every
\* available transition is rejected, reporting input and transitions, and no
\* transition is performed.
C6_RejectsFarStatus ==
    (TransitionRan /\ TransitionTooFar) =>
        /\ m_result.kind = "NoCloseMatch"
        /\ m_sent = <<>>

\* C6 amended: status resolution applies no threshold. The handler fails
\* without transitioning only when the ticket has no available transition;
\* otherwise it requests the first available transition of least distance to
\* the status name as given, however large that distance.
C6_TransitionsToNearest ==
    TransitionRan =>
        IF Len(Available) = 0
          THEN m_result.kind = "NoTransitions" /\ m_sent = <<>>
          ELSE /\ m_result.kind \in {"ok", "TransitionFailed"}
               /\ m_sent = <<[op |-> "doTransition", target |-> "ticket",
                              value |-> Available[LeastOf({i \in 1..Len(Available) :
                                  TransitionDist(i) = TransitionMinDist})].id]>>

\* C6 witness: a transition was requested although every available transition
\* lies beyond the strict threshold, and it is not the first one listed.
C6_Witness ==
    /\ TransitionRan /\ TransitionTooFar
    /\ Len(m_sent) = 1
    /\ m_sent[1].value # Available[1].id

\* The distance the call site of this state computes for candidate i.
SiteDist(i) ==
    IF m_site = "option" THEN OptionDist(i)
    ELSE IF m_site = "sprint"
      THEN levenshteinDistance(NormInput, toLowerCase(m_cands[i].name))
    ELSE levenshteinDistance(NormalizeFieldName(m_input),
                             NormalizeFieldName(m_cands[i].name))

SiteMinDist == LeastOf({SiteDist(i) : i \in 1..Len(m_cands)})

AttainsMin(i) == SiteDist(i) = SiteMinDist

\* Candidate i matches the input exactly where the call site looks for that.
SiteExact(i) ==
    IF m_site = "option" THEN OptionEqualsInputTrimmed(i)
    ELSE IF m_site = "sprint" THEN trim(toLowerCase(m_cands[i].name)) = NormInput
    ELSE FALSE

\* One of the three matchers returned candidate m_result.index.
MatcherReturned ==
    /\ sys = "match" /\ m_pc = "done"
    /\ m_site \in {"option", "sprint", "field"}
    /\ m_result.kind \in {"ok", "EditFailed"}

SeveralAttainMin == Cardinality({i \in 1..Len(m_cands) : AttainsMin(i)}) >= 2

\* C7 as stated: in getFieldId, findBestMatchingOption and
\* findBestMatchingSprint, when several candidates attain the minimum distance
\* the first of them in the list is the one returned.
C7_FirstOfMinimumWins ==
    (MatcherReturned /\ SeveralAttainMin) =>
        m_result.index = LeastOf({i \in 1..Len(m_cands) : AttainsMin(i)})

\* C7 amended: when several candidates attain the minimum distance the first of
\* them is returned, unless (findBestMatchingOption, findBestMatchingSprint) some
\* candidate matches the input exactly, trimmed and case aside: then the first
\* exact match is returned.
C7_FirstOfMinimumWinsUnlessExact ==
    (MatcherReturned /\ SeveralAttainMin) =>
        IF \E i \in 1..Len(m_cands) : SiteExact(i)
          THEN m_result.index = LeastOf({i \in 1..Len(m_cands) : SiteExact(i)})
          ELSE m_result.index = LeastOf({i \in 1..Len(m_cands) : AttainsMin(i)})

\* C7 witness: two allowed values tie at a positive distance, none is exact,
\* and the call returned.
C7_Witness ==
    /\ MatcherReturned /\ SeveralAttainMin
    /\ m_site = "option"
    /\ ~\E i \in 1..Len(m_cands) : SiteExact(i)
    /\ SiteMinDist > 0
    /\ m_cands[1] # m_cands[2]

\* findBestMatchingSprint ran on a non-empty list and rejected the input: no
\* name equals it (both trimmed and lowercased) and the nearest name is
\* farther than max(min(2 * length, 10), 4).
SprintRejected ==
    /\ sys = "match" /\ m_site = "sprint" /\ m_pc = "done"
    /\ Len(m_cands) > 0
    /\ \A i \in 1..Len(m_cands) : ~SiteExact(i)
    /\ SiteMinDist > Max(Min(2 * Len(NormInput), 10), 4)

\* C12: when sprint-name resolution rejects the input, it fails with
\* NoCloseMatch quoting the input as given, lists the first min(10, n) sprints
\* in list order as name and state, and appends "and n-10 more" exactly when
\* the list holds more than ten sprints.
C12_NoCloseMatchListsFirstTen ==
    SprintRejected =>
        LET n == Len(m_cands)
            k == IF n < 10 THEN n ELSE 10
        IN  /\ m_result.kind = "NoCloseMatch"
            /\ m_result.quoted = m_input
            /\ m_result.listed.shown =
                  [i \in 1..k |-> [name |-> m_cands[i].name, state |-> m_cands[i].state]]
            /\ (m_result.listed.more > 0) <=> (n > 10)
            /\ n > 10 => m_result.listed.more = n - 10

\* A rejection over a list of more than ten sprints.
C12_Witness == SprintRejected /\ Len(m_cands) > 10 /\ m_result.listed.more > 0

\* getFieldId ran on the catalog of this state, which the request returned.
FieldLookupRan ==
    /\ sys = "match" /\ m_site = "field" /\ m_pc = "done"
    /\ m_result.kind # "UpstreamRequestFailed"

\* The first catalog entry of least distance to the input, both normalized.
NearestField == LeastOf({i \in 1..Len(m_cands) : AttainsMin(i)})

\* C21 as stated: for a non-empty catalog getFieldId applies no threshold and
\* returns the identifier of an entry of minimum normalized distance; it fails
\* only when the catalog is empty.
C21_FailsOnlyOnEmptyCatalog ==
    FieldLookupRan =>
        IF Len(m_cands) = 0 THEN m_result.kind = "NoFields"
        ELSE m_result.kind = "ok" /\ AttainsMin(m_result.index)

\* C21: getFieldId applies no distance threshold; for a non-empty catalog it
\* takes the first entry of minimum normalized distance and returns its
\* identifier, failing with FieldNotFound when that entry has no identifier; it
\* fails with the no-fields error when the catalog is empty.
C21_NearestFieldOrNoId ==
    FieldLookupRan =>
        IF Len(m_cands) = 0 THEN m_result.kind = "NoFields"
        ELSE IF m_cands[NearestField].id = ""
          THEN m_result.kind = "FieldNotFound" /\ m_result.quoted = m_input
        ELSE m_result.kind = "ok" /\ m_result.index = NearestField

\* A field returned although every catalog entry is far from the input.
C21_Witness ==
    /\ FieldLookupRan /\ m_result.kind = "ok"
    /\ Len(m_cands) = 2
    /\ SiteMinDist >= 5
    /\ m_result.index = 2

-----------------------------------------------------------------------------
(* Claims about sprint resolution                                          *)

\* Sprint resolution finished for the upstream of this state.
SprintDone == sys = "sprint" /\ sr_pc = "done" /\ ~IsDefined(sr_boardId)

StateRank(sprint) ==
    IF sprint.state = "active" THEN 1 ELSE IF sprint.state = "future" THEN 2 ELSE 3

\* Sprint a may stand before sprint b: an earlier state, or the same state and
\* a name that does not follow.
MayPrecede(a, b) ==
    \/ StateRank(a) < StateRank(b)
    \/ StateRank(a) = StateRank(b) /\ localeCompare(a.name, b.name) <= 0

\* C8: every list sprint resolution returns has no two sprints of the same id,
\* only named sprints, and is ordered by state (active, future, closed) and,
\* within a state, by name.
C8_ResultUniqueNamedSorted ==
    (SprintDone /\ sr_result.kind = "ok") =>
        LET r == sr_result.sprints
        IN  /\ \A i \in 1..Len(r) : r[i].name # <<>>
            /\ \A i, j \in 1..Len(r) :
                  i < j => r[i].id # r[j].id /\ MayPrecede(r[i], r[j])

\* C8 witness: a list was returned after two boards answered with a common
\* sprint and an unnamed one, and it holds sprints of all three states.
C8_Witness ==
    /\ SprintDone /\ sr_result.kind = "ok"
    /\ \E i, j \in 1..Len(sr_allSprints) : i # j /\ sr_allSprints[i] = sr_allSprints[j]
    /\ \E i \in 1..Len(sr_allSprints) : sr_allSprints[i].name = <<>>
    /\ {sr_result.sprints[i].state : i \in 1..Len(sr_result.sprints)}
          = {"active", "future", "closed"}

\* The sprint requests issued so far, in order.
SprintFetches == SelectSeq(sr_requests, LAMBDA q : q.op = "getSprintsForBoard")

\* The boards of the upstream that belong to the ticket's project.
MatchingBoardIds ==
    {b.id : b \in {BoardListing(sr_server)[i] : i \in 1..Len(BoardListing(sr_server))}
                \cap {c \in BoardCatalog \cup {FillerBoard(i) : i \in 1..49} :
                        \/ c.projectKey = <<sr_projectKey>>
                        \/ Includes(toLowerCase(c.name), toLowerCase(sr_projectKey))}}

\* The board of the catalog with the given id.
BoardOf(id) == CHOOSE b \in BoardCatalog : b.id = id

\* C9: when boards match, each matching board's sprints are requested exactly
\* once whatever the other requests did, each failure is recorded, and the
\* named sprints of every board that answered are in the result.
C9_BoardFailureTolerated ==
    (SprintDone /\ Len(SprintFetches) > 0) =>
        /\ {SprintFetches[i].board : i \in 1..Len(SprintFetches)} = MatchingBoardIds
        /\ Len(SprintFetches) = Cardinality(MatchingBoardIds)
        /\ Len(sr_boardErrors)
              = Cardinality({i \in 1..Len(SprintFetches) : ~SprintFetches[i].ok})
        /\ \A i \in 1..Len(SprintFetches) :
              SprintFetches[i].ok =>
                 LET fetched == BoardOf(SprintFetches[i].board).sprints
                 IN  /\ Len(fetched) > 0 => sr_result.kind = "ok"
                     /\ \A k \in 1..Len(fetched) :
                           fetched[k].name # <<>> =>
                              \E n \in 1..Len(sr_result.sprints) :
                                  sr_result.sprints[n] = fetched[k]

\* C9 witness: the first board's request failed, the second board answered,
\* and its sprints were returned.
C9_Witness ==
    /\ SprintDone /\ Len(SprintFetches) = 2
    /\ ~SprintFetches[1].ok /\ SprintFetches[2].ok
    /\ Len(sr_boardErrors) = 1
    /\ sr_result.kind = "ok" /\ Len(sr_result.sprints) > 0

\* The project key was read, the boards were listed, and no board is located
\* in the project or carries its key in its name.
NoBoardMatched ==
    /\ SprintDone
    /\ Len(sr_requests) >= 2 /\ sr_requests[1].ok /\ sr_requests[2].ok
    /\ IsDefined(sr_ticket)
    /\ MatchingBoardIds = {}

\* The hint names at most 50 boards, all of them boards of the upstream.
HintWithinFifty ==
    /\ Len(sr_result.hint) <= 50
    /\ \A i \in 1..Len(sr_result.hint) :
          \E n \in 1..Len(BoardListing(sr_server)) :
              /\ BoardListing(sr_server)[n].id = sr_result.hint[i].id
              /\ BoardListing(sr_server)[n].name = sr_result.hint[i].name

\* C10 as stated: when no board matches, sprint resolution fails with
\* NoBoardsFound, its hint names at most 50 of the boards, and no sprint
\* request is issued.
C10_NoBoardsFoundWithHint ==
    NoBoardMatched =>
        /\ sr_result.kind = "NoBoardsFound"
        /\ HintWithinFifty
        /\ Len(SprintFetches) = 0

\* C10 amended: when no board matches, sprint resolution lists the boards a
\* second time for the hint and issues no sprint request; it fails with
\* NoBoardsFound, the hint naming at most 50 of the boards, when that second
\* listing succeeds, and with the upstream failure when it fails.
C10_NoBoardsFoundUnlessListingFails ==
    NoBoardMatched =>
        /\ Len(sr_requests) = 3 /\ sr_requests[3].op = "getAllBoards"
        /\ Len(SprintFetches) = 0
        /\ IF sr_requests[3].ok
             THEN sr_result.kind = "NoBoardsFound" /\ HintWithinFifty
             ELSE sr_result.kind = "UpstreamRequestFailed"

\* C10 witness: NoBoardsFound was raised with 51 boards listed and 50 named.
C10_Witness ==
    /\ NoBoardMatched
    /\ sr_result.kind = "NoBoardsFound"
    /\ Len(BoardListing(sr_server)) = 51
    /\ Len(sr_result.hint) = 50

\* Boards matched the project and each of them was asked for its sprints.
BoardsMatched == SprintDone /\ Len(SprintFetches) > 0

\* C11: when at least one board matches, sprint resolution either returns a
\* non-empty list or fails with NoSprintsFound carrying the checked boards and
\* one recorded error per failed sprint request; it never returns an empty list.
C11_NonEmptyOrNoSprintsFound ==
    BoardsMatched =>
        \/ sr_result.kind = "ok" /\ Len(sr_result.sprints) > 0
        \/ /\ sr_result.kind = "NoSprintsFound"
           /\ sr_result.hint = [i \in 1..Len(sr_boards) |-> BoardLine(sr_boards[i])]
           /\ Len(sr_result.errors)
                 = Cardinality({i \in 1..Len(SprintFetches) : ~SprintFetches[i].ok})

\* The available sprints were resolved, for the ticket's project or for the
\* board given, and handed to the matcher.
SprintsResolved ==
    /\ sys = "sprint"
    /\ sr_pc = "done" \/ (sr_pc = "finished" /\ sr_fieldId # "")
    /\ sr_result.kind = "ok"

\* updateTicketSprint sent its editIssue request.
SprintEditSent == sys = "sprint" /\ sr_pc = "finished" /\ Len(sr_sent) > 0

\* The sprint updateTicketSprint matched.
MatchedSprint == sr_result.sprints[sr_update.index]

\* C13: updateTicketSprint matches only among active and future sprints: a
\* closed sprint is never among the candidates and never the sprint assigned.
C13_ClosedSprintNeverCandidate ==
    /\ SprintsResolved =>
          \A i \in 1..Len(sr_result.sprints) :
              sr_result.sprints[i].state \in {"active", "future"}
    /\ SprintEditSent => MatchedSprint.state \in {"active", "future"}

\* updateTicketSprint returned normally.
SprintUpdated == sys = "sprint" /\ sr_pc = "finished" /\ sr_update.kind = "ok"

\* C14: on success updateTicketSprint has issued exactly one editIssue request
\* whose fields map the sprint field id to a one-element list holding the
\* numeric id of the matched sprint.
C14_OneEditWithIdInList ==
    SprintUpdated =>
        /\ Len(sr_sent) = 1
        /\ sr_sent[1].op = "editIssue"
        /\ sr_sent[1].target = sr_fieldId
        /\ sr_sent[1].value = JsonArray(<<MatchedSprint.id>>)

-----------------------------------------------------------------------------
(* Claims about searchTickets                                              *)

\* searchTickets built its query and sent the search request.
SearchDone == sys = "search" /\ q_pc = "done"

\* The query sent.
Jql == q_request[1].jql

\* The part of the query before " ORDER BY <order>".
BeforeOrderBy == SubSeq(Jql, 1, Len(Jql) - 2)

\* The query holds the given run of pieces.
JqlContains(sub) ==
    \E i \in 1..(Len(Jql) - Len(sub) + 1) : SubSeq(Jql, i, i + Len(sub) - 1) = sub

\* One of the conditions of the query is the given one.
HasCondition(condition) == \E i \in 1..Len(q_conditions) : q_conditions[i] = condition

\* No filter criterion contributes a condition: apart from maxResults and
\* orderBy nothing is set, save an empty labels list or recentDays = 0.
NoFilterContributes ==
    \A f \in CriteriaFields \ {"maxResults", "orderBy"} :
        \/ q_criteria[f] = None
        \/ f = "labels" /\ q_criteria[f] = Some(<<>>)
        \/ f = "recentDays" /\ q_criteria[f] = Some(0)

\* C15: the query is never unbounded: the part before ORDER BY holds at least
\* one condition, and when no filter criterion contributes one it is exactly
\* the 7-day recency condition "updated >= -7d".
C15_NeverUnbounded ==
    SearchDone =>
        /\ Len(q_conditions) >= 1
        /\ \A i \in 1..Len(q_conditions) : Len(q_conditions[i]) >= 1
        /\ Len(BeforeOrderBy) >= 1
        /\ Jql[Len(Jql) - 1] = Lit(" ORDER BY ")
        /\ NoFilterContributes => BeforeOrderBy = <<Lit("updated >= -7d")>>

\* The default applied to criteria that set maxResults, an empty labels list
\* and recentDays = 0.
C15_Witness ==
    /\ SearchDone /\ NoFilterContributes
    /\ q_criteria.labels = Some(<<>>)
    /\ q_criteria.recentDays = Some(0)
    /\ IsDefined(q_criteria.maxResults)

\* The relative condition on the update date for n days.
RelativeUpdated(n) == <<Lit("updated >= -"), Num(n), Lit("d")>>

\* A condition derived from updatedSince or updatedBefore is in the query.
ExplicitUpdated ==
    \/ JqlContains(<<Lit("updated >= \"")>>)
    \/ JqlContains(<<Lit("updated <= \"")>>)

\* The bound, when set, is emitted as the condition `<opening>value"`; when
\* absent, no condition with that opening is in the query.
EmittedAsSet(bound, opening) ==
    IF IsDefined(bound) THEN HasCondition(<<Lit(opening), Val(bound[1]), Lit("\"")>>)
    ELSE ~JqlContains(<<Lit(opening)>>)

\* The conditions on the creation date are emitted exactly for the bounds set.
CreatedEmittedAsSet ==
    /\ EmittedAsSet(q_criteria.createdSince, "created >= \"")
    /\ EmittedAsSet(q_criteria.createdBefore, "created <= \"")

\* C16 as stated: whenever recentDays is set, the query holds
\* "updated >= -<recentDays>d" and no condition from updatedSince or
\* updatedBefore; the created bounds are emitted whenever set.
C16_RecentDaysTakesPriority ==
    SearchDone =>
        /\ IsDefined(q_criteria.recentDays) =>
              /\ HasCondition(RelativeUpdated(q_criteria.recentDays[1]))
              /\ ~ExplicitUpdated
        /\ CreatedEmittedAsSet

\* C16: when recentDays is set to a number other than 0, the query holds
\* "updated >= -<recentDays>d" and no condition from updatedSince or
\* updatedBefore; recentDays = 0 counts as absent, and then the bounds set among
\* updatedSince and updatedBefore are emitted; the created bounds are emitted
\* whenever set, independently of all of these.
C16_NonZeroRecentDaysTakesPriority ==
    SearchDone =>
        /\ NumberGiven(q_criteria.recentDays) =>
              /\ HasCondition(RelativeUpdated(q_criteria.recentDays[1]))
              /\ ~ExplicitUpdated
        /\ ~NumberGiven(q_criteria.recentDays) =>
              /\ ~JqlContains(<<Lit("updated >= -")>>)
              /\ EmittedAsSet(q_criteria.updatedSince, "updated >= \"")
              /\ EmittedAsSet(q_criteria.updatedBefore, "updated <= \"")
        /\ CreatedEmittedAsSet

\* recentDays = 3 next to an explicit update bound and a creation bound.
C16_Witness ==
    /\ SearchDone
    /\ q_criteria.recentDays = Some(3)
    /\ IsDefined(q_criteria.updatedSince)
    /\ IsDefined(q_criteria.createdSince)

\* The priority text is "urgent" in some letter case.
UrgentAsked ==
    /\ SearchDone
    /\ IsDefined(q_criteria.priority)
    /\ toLowerCase(q_criteria.priority[1]) = S_urgent

\* The parenthesized OR-group of exact priority matches over the labels.
PriorityGroup(labels) ==
    <<Lit("(")>>
    \o JoinPieces([i \in 1..Len(labels) |->
                      <<Lit("priority = \""), Lit(labels[i]), Lit("\"")>>], " OR ")
    \o <<Lit(")")>>

\* The orders in which distinct labels may be listed.
Orders(labels) ==
    {l \in [1..Cardinality(labels) -> labels] : \A i, j \in DOMAIN l : i # j => l[i] # l[j]}

\* The conditions of the query that test the priority.
PriorityConditionCount ==
    Cardinality({i \in 1..Len(q_conditions) :
                    \E k \in 1..Len(q_conditions[i]) :
                        q_conditions[i][k] = Lit("priority = \"")})

\* C17 as stated: "urgent" in any letter case produces one parenthesized
\* OR-group of exact priority matches over exactly High, Highest, Critical and
\* Urgent.
C17_UrgentGroupOfFour ==
    UrgentAsked =>
        /\ PriorityConditionCount = 1
        /\ \E l \in Orders({"High", "Highest", "Critical", "Urgent"}) :
              HasCondition(PriorityGroup(l))

\* C17: "urgent" in any letter case produces one parenthesized OR-group of
\* exact priority matches over exactly Urgent, High and Highest, in that order.
C17_UrgentGroupOfThree ==
    UrgentAsked =>
        /\ PriorityConditionCount = 1
        /\ HasCondition(PriorityGroup(<<"Urgent", "High", "Highest">>))

\* "urgent" asked in mixed case.
C17_Witness == UrgentAsked /\ q_criteria.priority[1] # S_urgent

\* The whitespace-separated tokens of a text.
TokensOf(text) == SelectSeq(splitBlanks(text), LAMBDA t : t # <<>>)

\* The OR of summary ~ token, description ~ token and comment ~ token.
TokenGroup(token) ==
    <<Lit("(summary ~ \""), Val(token), Lit("\" OR description ~ \""), Val(token),
      Lit("\" OR comment ~ \""), Val(token), Lit("\")")>>

\* The one condition AND-joining the groups of the tokens in input order.
AllTokensCondition(tokens) ==
    <<Lit("(")>>
    \o JoinPieces([i \in 1..Len(tokens) |-> TokenGroup(tokens[i])], " AND ")
    \o <<Lit(")")>>

\* The conditions of the query that search the text.
TextConditionCount ==
    Cardinality({i \in 1..Len(q_conditions) :
                    \E k \in 1..Len(q_conditions[i]) :
                        q_conditions[i][k] = Lit("(summary ~ \"")})

\* A free text was searched for.
TextAsked == SearchDone /\ IsDefined(q_criteria.text)

\* C18 as stated: a text of n >= 2 tokens produces one parenthesized condition
\* AND-joining the n groups of the tokens in input order; a text of one token
\* produces the single group of that token.
C18_TokenGroups ==
    TextAsked =>
        LET tokens == TokensOf(q_criteria.text[1])
        IN  /\ Len(tokens) >= 2 =>
                  TextConditionCount = 1 /\ HasCondition(AllTokensCondition(tokens))
            /\ Len(tokens) = 1 =>
                  TextConditionCount = 1 /\ HasCondition(TokenGroup(tokens[1]))

\* C18: a text of n >= 2 tokens produces one parenthesized condition AND-joining
\* the n groups of the tokens in input order; a text of one token produces a
\* single group that quotes the text as given, surrounding blanks included.
C18_TokenGroupsOrTextAsGiven ==
    TextAsked =>
        LET tokens == TokensOf(q_criteria.text[1])
        IN  /\ Len(tokens) >= 2 =>
                  TextConditionCount = 1 /\ HasCondition(AllTokensCondition(tokens))
            /\ Len(tokens) = 1 =>
                  TextConditionCount = 1 /\ HasCondition(TokenGroup(q_criteria.text[1]))

\* A text of three tokens separated by runs of blanks.
C18_Witness == TextAsked /\ Len(TokensOf(q_criteria.text[1])) = 3

-----------------------------------------------------------------------------
(* Claims about parseDiff                                                  *)

\* parseDiff returned the hunks of the diff of this state.
DiffDone == sys = "diff" /\ d_pc = "done"

\* The numbers a hunk records on one side, in the order of its lines.
OldNumbers(hunk) ==
    LET side == SelectSeq(hunk.lines, LAMBDA l : l.type \in {"remove", "context"})
    IN  [i \in 1..Len(side) |-> side[i].oldLine]

NewNumbers(hunk) ==
    LET side == SelectSeq(hunk.lines, LAMBDA l : l.type \in {"add", "context"})
    IN  [i \in 1..Len(side) |-> side[i].newLine]

\* C19: in every hunk returned, the new-line numbers of the add and context
\* lines are newStart, newStart+1, ... in order, the old-line numbers of the
\* remove and context lines are oldStart, oldStart+1, ..., an add line has no
\* old-line number and a remove line has no new-line number.
C19_LineNumbersContiguous ==
    DiffDone =>
        \A k \in 1..Len(d_hunks) :
            LET hunk == d_hunks[k]
            IN  /\ NewNumbers(hunk) =
                      [i \in 1..Len(NewNumbers(hunk)) |-> Some(hunk.newStartLine + i - 1)]
                /\ OldNumbers(hunk) =
                      [i \in 1..Len(OldNumbers(hunk)) |-> Some(hunk.oldStartLine + i - 1)]
                /\ \A i \in 1..Len(hunk.lines) :
                      /\ hunk.lines[i].type \in {"add", "remove", "context"}
                      /\ hunk.lines[i].type = "add" => hunk.lines[i].oldLine = None
                      /\ hunk.lines[i].type = "remove" => hunk.lines[i].newLine = None

\* A hunk returned with a removed, an added and then a context line.
C19_Witness ==
    /\ DiffDone
    /\ \E k \in 1..Len(d_hunks) :
          /\ Len(d_hunks[k].lines) >= 3
          /\ d_hunks[k].lines[1].type = "remove"
          /\ d_hunks[k].lines[2].type = "add"
          /\ d_hunks[k].lines[3].type = "context"
          /\ d_hunks[k].lines[3].newLine = Some(d_hunks[k].newStartLine + 1)

\* The positions of the header lines in the diff text.
HeaderPositions == {i \in 1..Len(d_diff.lines) : d_diff.lines[i].starts = "@@"}

\* The body of the hunk whose header is at position h: the lines up to the
\* next header or the end of the text.
BodyOf(h) ==
    LET later == {i \in HeaderPositions : i > h}
        end == IF later = {} THEN Len(d_diff.lines)
               ELSE (CHOOSE i \in later : \A j \in later : i <= j) - 1
    IN  SubSeq(d_diff.lines, h + 1, end)

\* The number of lines of a body on the old side and on the new side.
OldSide(body) == Len(SelectSeq(body, LAMBDA l : l.starts \in {"-", " "}))

NewSide(body) == Len(SelectSeq(body, LAMBDA l : l.starts \in {"+", " "}))

\* The diff text is made of well-formed hunks: it starts with a header, every
\* header matches the pattern, and the counts of each header equal the numbers
\* of old-side and new-side lines of its body.
WellFormedDiff ==
    /\ Len(d_diff.lines) > 0 /\ 1 \in HeaderPositions
    /\ \A h \in HeaderPositions :
          /\ IsDefined(d_diff.lines[h].header)
          /\ OldSide(BodyOf(h)) = CountOf(d_diff.lines[h].header[1].oldCount)
          /\ NewSide(BodyOf(h)) = CountOf(d_diff.lines[h].header[1].newCount)

\* The position of the header of the k-th hunk.
HeaderOfHunk(k) ==
    CHOOSE h \in HeaderPositions : Cardinality({i \in HeaderPositions : i <= h}) = k

\* C20: for a diff text of well-formed hunks, with or without a trailing
\* newline, in each hunk whose body ends with a context line the last context
\* line recorded has oldLine = oldStart+oldCount-1 and
\* newLine = newStart+newCount-1.
C20_LastContextLineClosesHunk ==
    (DiffDone /\ WellFormedDiff) =>
        /\ Len(d_hunks) = Cardinality(HeaderPositions)
        /\ \A k \in 1..Len(d_hunks) :
              LET body == BodyOf(HeaderOfHunk(k))
                  hunk == d_hunks[k]
                  context == SelectSeq(hunk.lines, LAMBDA l : l.type = "context")
              IN  (Len(body) > 0 /\ body[Len(body)].starts = " ") =>
                      /\ Len(context) > 0
                      /\ context[Len(context)].oldLine =
                            Some(hunk.oldStartLine + hunk.oldLineCount - 1)
                      /\ context[Len(context)].newLine =
                            Some(hunk.newStartLine + hunk.newLineCount - 1)

\* The positions, among the lines the text splits into, of the lines that
\* match the header pattern.
WellFormedHeaders ==
    {i \in 1..Len(SplitLines(d_diff)) :
        /\ SplitLines(d_diff)[i].starts = "@@"
        /\ IsDefined(SplitLines(d_diff)[i].header)}

\* The position of the well-formed header that opens the k-th hunk.
HeaderOpening(k) ==
    CHOOSE h \in WellFormedHeaders :
        Cardinality({i \in WellFormedHeaders : i <= h}) = k

\* The input lines between the header at h and the next well-formed header
\* or the end of the input.
LinesAfter(h) ==
    LET lines == SplitLines(d_diff)
        later == {i \in WellFormedHeaders : i > h}
        end == IF later = {} THEN Len(lines)
               ELSE (CHOOSE i \in later : \A j \in later : i <= j) - 1
    IN  SubSeq(lines, h + 1, end)

\* add for a line starting with "+", remove for "-", context for the rest.
TypeOfLine(line) ==
    IF line.starts = "+" THEN "add"
    ELSE IF line.starts = "-" THEN "remove" ELSE "context"

\* The hunk records exactly the lines given, in order, each with its type.
Records(hunk, lines) ==
    /\ Len(hunk.lines) = Len(lines)
    /\ \A i \in 1..Len(lines) :
          /\ hunk.lines[i].content = lines[i]
          /\ hunk.lines[i].type = TypeOfLine(lines[i])

\* C28, as stated: every input line after the first hunk header that is not
\* a well-formed header is recorded in the hunk in progress with its type, so
\* there are as many hunks as well-formed headers and each hunk has as many
\* lines as the input has between its header and the next well-formed header
\* or the end of the input.
C28_EveryOtherLineRecorded ==
    DiffDone =>
        /\ Len(d_hunks) = Cardinality(WellFormedHeaders)
        /\ \A k \in 1..Len(d_hunks) :
              Records(d_hunks[k], LinesAfter(HeaderOpening(k)))

\* C28, amended: every input line after the first well-formed hunk header
\* that does not start with "@@" is recorded in the hunk in progress with its
\* type; a line that starts with "@@" and is not a well-formed header is
\* dropped. There are as many hunks as well-formed headers, and each hunk has
\* as many lines as the input has lines not starting with "@@" between its
\* header and the next well-formed header or the end of the input.
C28_LinesNotStartingAtAtRecorded ==
    DiffDone =>
        /\ Len(d_hunks) = Cardinality(WellFormedHeaders)
        /\ \A k \in 1..Len(d_hunks) :
              /\ d_hunks[k].header = SplitLines(d_diff)[HeaderOpening(k)]
              /\ Records(d_hunks[k],
                         SelectSeq(LinesAfter(HeaderOpening(k)),
                                   LAMBDA l : l.starts # "@@"))

\* Two hunks returned, the first from a header followed by an added line, a
\* malformed "@@" line and a context line.
C28_Witness ==
    /\ DiffDone
    /\ Len(d_hunks) = 2
    /\ Len(d_diff.lines) = 4
    /\ d_diff.lines[2] = MalformedHeaderLine
    /\ d_diff.lines[3] = ContextLine
    /\ IsDefined(d_diff.lines[4].header)
    /\ Len(d_hunks[1].lines) = 1

-----------------------------------------------------------------------------
(* Claims about levenshteinDistance                                        *)

RECURSIVE EditDistance(_, _)
\* The unit-cost edit distance by its defining recursion: the cheapest of
\* deleting the head of a, inserting the head of b, and substituting one head
\* for the other (at no cost when they are equal).
EditDistance(a, b) ==
    IF a = <<>> THEN Len(b)
    ELSE IF b = <<>> THEN Len(a)
    ELSE LeastOf({EditDistance(Tail(a), b) + 1,
                  EditDistance(a, Tail(b)) + 1,
                  EditDistance(Tail(a), Tail(b)) + (IF Head(a) = Head(b) THEN 0 ELSE 1)})

DistanceDone == sys = "distance" /\ lv_pc = "done"

\* C22: levenshteinDistance(a, b) is the classic unit-cost edit distance: it
\* is symmetric, 0 for identical strings, the other string's length when one
\* string is empty, 3 for kitten/sitting and 1 for hello/hallo.
C22_ClassicEditDistance ==
    DistanceDone =>
        /\ lv_distance = EditDistance(lv_a, lv_b)
        /\ lv_distance = levenshteinDistance(lv_b, lv_a)
        /\ lv_a = lv_b => lv_distance = 0
        /\ lv_a = <<>> => lv_distance = Len(lv_b)
        /\ lv_b = <<>> => lv_distance = Len(lv_a)
        /\ (lv_a = S_kitten /\ lv_b = S_sitting) => lv_distance = 3
        /\ (lv_a = S_hello /\ lv_b = S_hallo) => lv_distance = 1

\* The distance of kitten and sitting was computed.
C22_Witness == DistanceDone /\ lv_a = S_kitten /\ lv_b = S_sitting /\ lv_distance = 3

-----------------------------------------------------------------------------
(* Claims about findBoards                                                 *)

\* findBoards returned a list of boards.
FindReturned == sys = "find" /\ fb_pc = "done" /\ fb_outcome.kind = "ok"

\* The call carried no boardId and returned.
ListReturned == FindReturned /\ ~IsDefined(fb_criteria.boardId)

\* The boards returned are boards of the upstream, in its order.
InServerOrder ==
    LET boards == fb_outcome.boards
    IN  /\ \A i \in 1..Len(boards) :
              \E j \in 1..Len(fb_server.boards) : fb_server.boards[j] = boards[i]
        /\ \A i, j \in 1..Len(boards) : i < j => boards[i].id < boards[j].id

\* The result has at most maxResults boards, 50 when none is asked for.
WithinLimit ==
    Len(fb_outcome.boards) <=
        (IF TruthyNumber(fb_criteria.maxResults)
         THEN fb_criteria.maxResults[1] ELSE DefaultMaxResults)

\* Every returned board meets the project key and the board name asked for.
MeetsKeyAndName ==
    \A i \in 1..Len(fb_outcome.boards) :
        LET board == fb_outcome.boards[i]
        IN  /\ TruthyString(fb_criteria.projectKey)
                    => ProjectKeyFilter(fb_criteria, board)
            /\ TruthyString(fb_criteria.boardName)
                    => BoardNameFilter(fb_criteria, board)

\* Every returned board is of the type asked for.
MeetsType ==
    \A i \in 1..Len(fb_outcome.boards) :
        IsDefined(fb_criteria.type)
            => fb_outcome.boards[i].type = fb_criteria.type[1]

\* C24: findBoards without a boardId returns no board that violates a
\* supplied criterion (type, project key, board name), whatever the server
\* does with the type and name parameters; the result keeps server order and
\* has at most maxResults boards.
C24_NoCriterionViolated ==
    ListReturned => MeetsType /\ MeetsKeyAndName /\ InServerOrder /\ WithinLimit

\* findBoards finished, by returning or by throwing.
FindDone == sys = "find" /\ fb_pc = "done"

\* The only request issued is the lookup of the board asked for.
OnlyBoardLookup == fb_requests = <<BoardRequest(fb_criteria.boardId[1])>>

\* The result is exactly what the lookup gave: the board, or the empty list
\* when the lookup failed; never an error.
ExactlyLookedUp ==
    LET looked == BoardOfId(fb_server, fb_criteria.boardId[1])
    IN  /\ fb_outcome.kind = "ok"
        /\ fb_outcome.boards = IF IsDefined(looked) THEN <<looked[1]>> ELSE <<>>

\* C30, as stated: a call that carries a boardId performs only the direct
\* lookup, returns exactly the looked-up board and the empty list when the
\* lookup fails.
C30_AnyBoardId ==
    FindDone /\ IsDefined(fb_criteria.boardId)
        => OnlyBoardLookup /\ ExactlyLookedUp

\* C30, amended: a call that carries a non-zero boardId performs only the
\* direct lookup (no board-list request), returns exactly the looked-up board
\* without applying the other criteria, and returns the empty list, not an
\* error, when the lookup fails.
C30_NonZeroBoardId ==
    FindDone /\ IsDefined(fb_criteria.boardId) /\ fb_criteria.boardId[1] # 0
        => OnlyBoardLookup /\ ExactlyLookedUp

\* A lookup returned a board that meets none of the other criteria asked for.
C30_Witness ==
    /\ FindDone
    /\ fb_criteria.boardId = Some(1)
    /\ fb_criteria.projectKey = Some(S_X)
    /\ fb_criteria.type = Some("kanban")
    /\ Len(fb_outcome.boards) = 1
    /\ fb_outcome.boards[1].id = 1

-----------------------------------------------------------------------------
(* Claims about the field-catalog cache                                    *)

\* No call is waiting for the upstream.
NoCallAwaiting == \A c \in CallSlots : fc_calls[c].pc # "awaiting"

\* The slot whose call this step begins, answers or fails.
Stepped(c) == fc_calls'[c] # fc_calls[c]

\* A step from a state with the catalog cached and no request in flight: the
\* cache keeps its value, no field request is issued, and a call that begins
\* is answered with the cached catalog (or with the cached story points id).
ServedFromCache ==
    /\ fc_allFieldsCache' = fc_allFieldsCache
    /\ fc_requests' = fc_requests
    /\ \A c \in CallSlots :
          Stepped(c) =>
              /\ fc_calls'[c].pc # "awaiting"
              /\ ~fc_calls'[c].fetched
              /\ \/ fc_calls'[c].saw = fc_allFieldsCache
                 \/ StoryPointsHit(fc_calls'[c].op, fc_storyPointsFieldId)

\* A step in which the request of a call fails: the cache is left as it was.
FailureKeepsCache ==
    \A c \in CallSlots :
        fc_calls[c].pc = "awaiting" /\ Stepped(c) /\ ~IsDefined(fc_calls'[c].saw)
            => fc_allFieldsCache' = fc_allFieldsCache

\* A call that begins while the cache is unset issues a field request.
UnsetCacheFetches ==
    \A c \in CallSlots :
        fc_calls[c].pc # "awaiting" /\ Stepped(c)
            => fc_requests' = Append(fc_requests, c)

\* C25: once a fetch of the field catalog has succeeded, every later
\* sequential call that needs the catalog gets the cached catalog and issues
\* no upstream field request, for as long as the instance lives; a failed
\* fetch leaves the cache as it was (unset), so the next call fetches again.
C25_CachedForLife ==
    [][ sys = "cache" =>
          /\ IsDefined(fc_allFieldsCache) /\ NoCallAwaiting => ServedFromCache
          /\ FailureKeepsCache
          /\ ~IsDefined(fc_allFieldsCache) => UnsetCacheFetches ]_vars

\* A second call was answered from the cache, here an empty catalog, after
\* the only field request of the instance.
C25_Witness ==
    /\ sys = "cache"
    /\ fc_allFieldsCache = Some(<<>>)
    /\ Len(fc_requests) = 1
    /\ fc_started = MaxCalls
    /\ NoCallAwaiting
    /\ \E c \in CallSlots :
          /\ fc_calls[c].pc = "returned"
          /\ ~fc_calls[c].fetched
          /\ fc_calls[c].saw = fc_allFieldsCache

\* The catalogs the successful requests returned.
FetchedCatalogs == {fc_fetched[i] : i \in 1..Len(fc_fetched)}

\* C26: for every interleaving of two calls at the upstream requests, a call
\* that found the cache empty and whose request was answered completes with a
\* catalog a fetch returned; the cache holds nothing that no fetch returned
\* (it holds what the last answered fetch returned), and when the fetches
\* returned the same catalog it is what a single call leaves in the cache.
C26_RaceFreePopulation ==
    sys = "cache" =>
        /\ fc_allFieldsCache =
               IF Len(fc_fetched) = 0 THEN None
               ELSE Some(fc_fetched[Len(fc_fetched)])
        /\ \A c \in CallSlots :
              /\ IsDefined(fc_calls[c].saw)
                    => fc_calls[c].saw[1] \in FetchedCatalogs
              /\ fc_calls[c].pc = "returned" /\ fc_calls[c].fetched
                    => IsDefined(fc_calls[c].saw)
        /\ \A fields \in Catalogs :
              FetchedCatalogs = {fields} => fc_allFieldsCache = Some(fields)

\* Two calls both found the cache empty, both requests were answered with
\* the same non-empty catalog, and both calls returned.
C26_Witness ==
    /\ sys = "cache"
    /\ fc_started = 2
    /\ Len(fc_fetched) = 2
    /\ fc_fetched[1] = fc_fetched[2]
    /\ Len(fc_fetched[1]) > 0
    /\ \A c \in CallSlots :
          fc_calls[c].pc = "returned" /\ fc_calls[c].fetched

-----------------------------------------------------------------------------
(* Claims about the project cache                                          *)

\* A successful fetch was stored less than 24 hours before now.
StoredWithinADay ==
    IsDefined(gl_projectCache)
    /\ gl_now - gl_projectCache[1].timestamp < CACHE_DURATION_MS

\* This step is the beginning of a call of listProjects.
CallOfListProjects == gl_calls' = gl_calls + 1

\* The call is answered with the cached list, without an upstream request.
AnsweredFromCache ==
    /\ gl_last' = Listed("cached", gl_projectCache[1].data)
    /\ gl_requests' = gl_requests
    /\ gl_pc' = "idle"
    /\ gl_projectCache' = gl_projectCache

\* The call issues an upstream request and waits for it.
FetchesAgain == gl_requests' = gl_requests + 1 /\ gl_pc' = "awaiting"

\* This step ends a request.
RequestEnds == gl_pc = "awaiting" /\ gl_pc' = "idle"

\* C27: listProjects answers from its cache, without an upstream request,
\* exactly when a successful fetch was stored less than 24 hours earlier; at
\* or after 24 hours it fetches again, and the fetch replaces the cached list
\* and its timestamp; a failed fetch propagates the error and leaves the
\* cache entry as it was.
C27_FreshForADay ==
    [][ sys = "projects" =>
          /\ CallOfListProjects /\ StoredWithinADay => AnsweredFromCache
          /\ CallOfListProjects /\ ~StoredWithinADay => FetchesAgain
          /\ RequestEnds /\ gl_last'.kind = "fetched" =>
                /\ gl_projectCache' =
                       Some(CacheEntry(gl_last'.data, gl_now))
                /\ gl_last'.data = simplifiedProjects(gl_upstream)
          /\ RequestEnds /\ gl_last'.kind # "fetched" =>
                /\ gl_last'.kind = "error"
                /\ gl_projectCache' = gl_projectCache ]_vars

\* The list of the first request was stored at time 0, and a call made
\* exactly 24 hours later has issued the second request.
C27_Witness ==
    /\ sys = "projects"
    /\ IsDefined(gl_projectCache)
    /\ gl_projectCache[1].timestamp = 0
    /\ gl_now = CACHE_DURATION_MS
    /\ gl_requests = 2
    /\ gl_pc = "awaiting"

-----------------------------------------------------------------------------
(* Claims about the updates of a ticket                                    *)

\* The outcomes of an update whose lookup, candidate fetch and matching all
\* succeeded: the edit went through, or the upstream refused it.
EditOutcomes == {"ok", "EditFailed"}

\* What updateTicketPriority sent: nothing, or one editIssue, the latter
\* only when every step before it succeeded.
PriorityEditGuarded ==
    sys = "match" /\ m_site = "option" =>
        /\ Len(m_sent) <= 1
        /\ \A i \in 1..Len(m_sent) : m_sent[i].op = "editIssue"
        /\ Len(m_sent) = 1 <=> (m_pc = "done" /\ m_result.kind \in EditOutcomes)

\* What updateTicketSprint sent: nothing, or one editIssue, the latter only
\* when the field id was found, the sprints were resolved and one matched
\* with a numeric id.
SprintEditGuarded ==
    sys = "sprint" =>
        /\ Len(sr_sent) <= 1
        /\ \A i \in 1..Len(sr_sent) : sr_sent[i].op = "editIssue"
        /\ Len(sr_sent) = 1 <=>
              /\ sr_pc = "finished"
              /\ sr_fieldId # ""
              /\ sr_update.kind \in EditOutcomes

\* C29: updateTicketPriority and updateTicketSprint send at most one
\* editIssue per call, and only after the field-id lookup, the candidate
\* fetch and the matching have all succeeded; when one of them fails (field
\* not found, not editable, no option field, no boards, no sprints, no close
\* match, invalid sprint id, upstream failure) no editIssue is sent, so the
\* ticket is not changed.
C29_EditOnlyAfterEveryStep == PriorityEditGuarded /\ SprintEditGuarded

\* updateTicketSprint ended on a matched sprint whose id is no number, having
\* sent nothing.
C29_Witness ==
    /\ sys = "sprint" /\ sr_pc = "finished"
    /\ sr_update.kind = "InvalidSprintId"
    /\ sr_result.kind = "ok"
    /\ sr_sent = <<>>

-----------------------------------------------------------------------------
(* The whole program: one of the operations above runs                     *)

Init == PageInit \/ MatchInit \/ SprintInit \/ SearchInit \/ DiffInit \/ DistanceInit \/ ServedInit
    \/ FindInit \/ FieldCacheInit \/ ProjectCacheInit

Next == PageNext \/ MatchNext \/ SprintNext \/ SearchNext \/ DiffNext \/ DistanceNext \/ ServedNext
    \/ FindNext \/ FieldCacheNext \/ ProjectCacheNext

Spec == Init /\ [][Next]_vars
====
